---- MODULE Spec2Model ----
(***************************************************************************)
(* Verification model of the trust-region minimizer                        *)
(* (internal/ceres/trust_region_minimizer.cc).                             *)
(*                                                                         *)
(* Numbers.  The problem is one-dimensional and all quantities are         *)
(* integers.  A ratio a/b that the code compares with a threshold is kept  *)
(* as the pair <<a, b>> and compared by cross multiplication with the      *)
(* IEEE-754 outcome for a zero denominator.  The Jacobi scale 1/(1+|J|)    *)
(* is kept as the record [num, den].                                       *)
(*                                                                         *)
(* Collaborators.  The evaluator is a fixed deterministic residual         *)
(* function of x whose calls may fail at any time; the strategy, the line  *)
(* search, the inner-iteration minimizer, the wall clock and the iteration *)
(* callbacks are inputs chosen with \E at the call.                        *)
(***************************************************************************)
EXTENDS Integers, Sequences, FiniteSets, TLC

\* ------------------------------------------------------------------ bounds
MaxX == 3                    \* parameter values are 0 .. MaxX
MaxStep == 1                 \* |delta| proposed by the strategy
MaxNumIterations == 2        \* largest Options::max_num_iterations
MaxInvalidSteps == 2         \* largest Options::max_num_consecutive_invalid_steps
BoxLow == 1                  \* the feasible box of a constrained problem is BoxLow .. MaxX
MaxDeviation == 1            \* option groups that may differ from the default
MaxCost == 12                \* largest cost offered to a step evaluator on its own
MaxModelCostChange == 2      \* largest model cost change offered with it
MaxOffers == 2               \* steps offered to a step evaluator on its own
MaxThreads == 2              \* largest num_threads given to ThreadPool::Resize
MaxHardwareThreads == 2      \* largest std::thread::hardware_concurrency()
MaxResizeCalls == 2          \* calls of ThreadPool::Resize
MaxTasks == 2                \* tasks given to ThreadPool::AddTask
MaxEnd == 5                  \* ParallelFor works on ranges within 0 .. MaxEnd
MaxParallelThreads == 2      \* largest num_threads given to ParallelFor
MaxPoolThreads == 1          \* threads of the context's pool that serve ParallelFor
MaxChangedOptions == 2       \* Solver::Options fields that differ from a valid default
MaxMatrixRows == 2           \* largest num_rows of a DynamicCompressedRowSparseMatrix
MaxMatrixCalls == 4          \* calls of InsertEntry, ClearRows and Finalize on it

\* std::numeric_limits<double>::max(), the cost of a failed trial
DBL_MAX == 1000

X == 0 .. MaxX

Abs(n) == IF n < 0 THEN -n ELSE n

Clamp(v) == IF v < BoxLow THEN BoxLow ELSE IF v > MaxX THEN MaxX ELSE v

\* a/b > t for the double a/b: b = 0 gives +inf, -inf or NaN
QuotientGT(a, b, t) ==
  IF b > 0 THEN a > t * b
  ELSE IF b < 0 THEN a < t * b
  ELSE a > 0

\* ------------------------------------------------------------ the evaluator
\* residual r(x) and its derivative: r = 2(2 - x) for x <= 2, r = 2x
\* beyond; the derivative at 0 is steeper than the secant to r(1)
ResidualAt(x) == IF x <= 2 THEN 2 * (2 - x) ELSE 2 * x

JacobianAt(x) == IF x = 0 THEN -4 ELSE IF x <= 2 THEN -2 ELSE 2

\* cost = 1/2 r^2 (r is even), gradient = J' r
CostAt(x) == (ResidualAt(x) * ResidualAt(x)) \div 2

GradientAt(x) == JacobianAt(x) * ResidualAt(x)

\* Evaluator::Plus: addition, followed by the projection on the box
\* BoxLow .. MaxX when the problem is bounds constrained
Plus(is_constrained, x, delta) ==
  IF is_constrained THEN Clamp(x + delta) ELSE x + delta

\* ------------------------------------------------------------------ options
Tolerances == {0, 1}
GradientTolerances == {0, 4}
MinTrustRegionRadii == {1}
SolverTimes == {0, 1}
Radii == {0, 1}

\* inner_iteration_minimizer is NULL or not; the tolerance is read only
\* when it is not
\* use_nonmonotonic_steps and, read only when it is set,
\* max_consecutive_nonmonotonic_steps (> 0)
NonmonotonicWindows == {1, 2}

NonmonotonicChoices ==
  { [use |-> FALSE, window |-> 1] } \cup
  { [use |-> TRUE, window |-> w] : w \in NonmonotonicWindows }

InnerIterationChoices ==
  { [minimizer |-> FALSE, tolerance |-> 0] } \cup
  { [minimizer |-> TRUE, tolerance |-> t] : t \in Tolerances }

DefaultOptions ==
  [ max_num_iterations                |-> MaxNumIterations,
    max_num_consecutive_invalid_steps |-> MaxInvalidSteps,
    max_solver_time_in_seconds        |-> 1,
    parameter_tolerance               |-> 0,
    function_tolerance                |-> 0,
    gradient_tolerance                |-> 0,
    min_relative_decrease             |-> 0,
    min_trust_region_radius           |-> 1,
    is_constrained                    |-> FALSE,
    jacobi_scaling                    |-> FALSE,
    inner_iteration_minimizer         |-> FALSE,
    inner_iteration_tolerance         |-> 0,
    use_nonmonotonic_steps            |-> FALSE,
    max_consecutive_nonmonotonic_steps |-> 1 ]

AllOptions ==
  { [ max_num_iterations                |-> mi,
      max_num_consecutive_invalid_steps |-> mv,
      max_solver_time_in_seconds        |-> st,
      parameter_tolerance               |-> pt,
      function_tolerance                |-> ft,
      gradient_tolerance                |-> gt,
      min_relative_decrease             |-> rd,
      min_trust_region_radius           |-> mr,
      is_constrained                    |-> ic,
      jacobi_scaling                    |-> js,
      inner_iteration_minimizer         |-> ii.minimizer,
      inner_iteration_tolerance         |-> ii.tolerance,
      use_nonmonotonic_steps            |-> nm.use,
      max_consecutive_nonmonotonic_steps |-> nm.window ] :
      mi \in 0 .. MaxNumIterations, mv \in 0 .. MaxInvalidSteps,
      st \in SolverTimes, pt \in Tolerances, ft \in Tolerances,
      gt \in GradientTolerances, rd \in Tolerances,
      mr \in MinTrustRegionRadii, ic \in BOOLEAN, js \in BOOLEAN,
      ii \in InnerIterationChoices, nm \in NonmonotonicChoices }

\* number of option groups in which o differs from the default options
Deviation(o) ==
  LET D == DefaultOptions
      b(p) == IF p THEN 1 ELSE 0
  IN  b(o.max_num_iterations # D.max_num_iterations)
    + b(o.max_num_consecutive_invalid_steps # D.max_num_consecutive_invalid_steps)
    + b(o.max_solver_time_in_seconds # D.max_solver_time_in_seconds)
    + b(o.parameter_tolerance # D.parameter_tolerance)
    + b(o.function_tolerance # D.function_tolerance)
    + b(o.gradient_tolerance # D.gradient_tolerance)
    + b(o.min_relative_decrease # D.min_relative_decrease)
    + b(o.is_constrained # D.is_constrained)
    + b(o.jacobi_scaling # D.jacobi_scaling)
    + b(o.inner_iteration_minimizer # D.inner_iteration_minimizer
        \/ o.inner_iteration_tolerance # D.inner_iteration_tolerance)
    + b(o.use_nonmonotonic_steps # D.use_nonmonotonic_steps
        \/ o.max_consecutive_nonmonotonic_steps #
             D.max_consecutive_nonmonotonic_steps)

\* the options the model is run with: every valid Options that differs
\* from the default in at most MaxDeviation groups
OptionsSet == { o \in AllOptions : Deviation(o) <= MaxDeviation }

\* ---------------------------------------------------------------- records
\* IterationSummary(): the default-constructed record
IterationSummary ==
  [ iteration           |-> 0,
    step_is_valid       |-> FALSE,
    step_is_successful  |-> FALSE,
    cost                |-> 0,
    cost_change         |-> 0,
    gradient_max_norm   |-> 0,
    gradient_norm       |-> 0,
    step_norm           |-> 0,
    relative_decrease   |-> <<0, 1>>,
    trust_region_radius |-> 0 ]

\* what the model keeps of every element of Solver::Summary::iterations;
\* the last element is kept in full as iterations_back
Appended(is) ==
  [ iteration          |-> is.iteration,
    step_is_valid      |-> is.step_is_valid,
    step_is_successful |-> is.step_is_successful ]

\* variant: the record of the iteration replaces the last record
PushBack_OverLast(iterations, is) ==
  IF iterations = << >> THEN << Appended(is) >>
  ELSE [iterations EXCEPT ![Len(iterations)] = Appended(is)]

\* solver_summary_->iterations.push_back(iteration_summary_)
PushBack(iterations, is) == Append(iterations, Appended(is))

\* Solver::Summary::fixed_cost: the cost of the residual blocks that the
\* preprocessor found constant; it is added to every cost that is reported
FixedCost == 1

\* the caller's Solver::Summary before Minimize is called
InitialSummary(fixed_cost) ==
  [ termination_type          |-> "UNSET",
    message                   |-> "",
    num_successful_steps      |-> 0,
    num_unsuccessful_steps    |-> 0,
    num_inner_iteration_steps |-> 0,
    initial_cost              |-> 0,
    fixed_cost                |-> fixed_cost,
    num_iterations            |-> 0,
    iterations_back           |-> IterationSummary,
    iterations                |-> << >> ]

VARIABLES
  pc,                              \* position in Minimize
  options_,
  parameters,                      \* the caller's parameter buffer
  solver_summary_,
  iteration_summary_,
  x_, x_norm_, x_plus_delta_, delta_, trust_region_step_,
  cost_, residuals_, gradient_, jacobian_, scale_,
  model_cost_change_,
  new_cost,                        \* local of the loop body
  minimum_cost,                    \* local of Minimize
  num_consecutive_invalid_steps_,
  inner_iterations_are_enabled_,
  inner_iterations_were_useful_,
  step_evaluator_,
  strategy_,                       \* calls received by the strategy
  history                          \* observations (not read by any action)

\* a step evaluator driven on its own, outside a solve
VARIABLES
  step_evaluator,                  \* the StepEvaluator object
  offered                          \* the steps it was asked about, in order

minimizer_vars ==
  << pc, options_, parameters, solver_summary_, iteration_summary_,
     x_, x_norm_, x_plus_delta_, delta_, trust_region_step_,
     cost_, residuals_, gradient_, jacobian_, scale_, model_cost_change_,
     new_cost, minimum_cost, num_consecutive_invalid_steps_,
     inner_iterations_are_enabled_, inner_iterations_were_useful_,
     step_evaluator_, strategy_, history >>

evaluator_vars == << step_evaluator, offered >>

\* a ThreadPool and the threads that use it
VARIABLES
  thread_pool_,                    \* the worker threads: what each is doing
  task_queue_,                     \* ConcurrentQueue: the tasks and the stop flag
  thread_pool_mutex_,              \* 0, or the caller that holds the mutex
  num_hardware_threads,            \* std::thread::hardware_concurrency()
  resize,                          \* the Resize call of every caller
  tasks                            \* observations: what became of every task

thread_pool_vars ==
  << thread_pool_, task_queue_, thread_pool_mutex_, num_hardware_threads,
     resize, tasks >>

\* a call of ParallelFor and the threads that work on it
VARIABLES
  call,                            \* the arguments of the call
  caller,                          \* where the calling thread is
  shared_state,                    \* ParallelInvoke's ThreadPoolState
  task_copies,                     \* copies of the task queued in the context's pool
  participants,                    \* the threads that run the task
  invoked                          \* observations: the calls of the function

parallel_for_vars ==
  << call, caller, shared_state, task_copies, participants, invoked >>

\* a call of Solver::Solve
VARIABLES
  solver_options,                  \* const Solver::Options& options
  user_state,                      \* the parameter values of the problem
  summary,                         \* Solver::Summary* summary
  solve                            \* where Solve is, and observations

solve_vars == << solver_options, user_state, summary, solve >>

\* a DynamicCompressedRowSparseMatrix
VARIABLES
  dynamic_cols_,                   \* vector<vector<int>>: the columns of every row
  dynamic_values_,                 \* vector<vector<double>>: the values of every row
  rows_, cols_, values_,           \* the arrays of CompressedRowSparseMatrix
  matrix                           \* observations: the calls and the entries held

matrix_vars == << dynamic_cols_, dynamic_values_, rows_, cols_, values_, matrix >>

\* the state outside the minimizer
not_minimizer ==
  << evaluator_vars, thread_pool_vars, parallel_for_vars, solve_vars,
     matrix_vars >>

\* the state outside the step evaluator
not_evaluator ==
  << minimizer_vars, thread_pool_vars, parallel_for_vars, solve_vars,
     matrix_vars >>

\* the state outside the ThreadPool
not_thread_pool ==
  << minimizer_vars, evaluator_vars, parallel_for_vars, solve_vars,
     matrix_vars >>

\* the state outside ParallelFor
not_parallel_for ==
  << minimizer_vars, evaluator_vars, thread_pool_vars, solve_vars,
     matrix_vars >>

\* the state outside Solver::Solve
not_solve ==
  << minimizer_vars, evaluator_vars, thread_pool_vars, parallel_for_vars,
     matrix_vars >>

\* the state outside the DynamicCompressedRowSparseMatrix
not_matrix ==
  << minimizer_vars, evaluator_vars, thread_pool_vars, parallel_for_vars,
     solve_vars >>

vars == << minimizer_vars, not_minimizer >>

\* --------------------------------------------------------------- jacobian
\* SparseMatrix::ScaleColumns: every column is multiplied by its scale
ScaleColumns(jac, scale) ==
  [num |-> jac.num * scale.num, den |-> jac.den * scale.den]

\* SparseMatrix::RightMultiply: J * step (exact, see TypeOK)
RightMultiply(jac, step) == (jac.num * step) \div jac.den

\* scale = 1 / (1 + sqrt(squared column norm))
JacobiScale(jac) == [num |-> 1, den |-> 1 + Abs(jac.num \div jac.den)]

Ones == [num |-> 1, den |-> 1]

\* delta = trust_region_step .* scale
ScaleStep(step, scale) == (step * scale.num) \div scale.den

\* model_cost_change = -(J * step)' (f + J * step / 2)
ModelCostChange(jac, residuals, step) ==
  LET model_residuals == RightMultiply(jac, step)
  IN  - model_residuals * (residuals + model_residuals \div 2)

\* ------------------------------------------------------ the step evaluator
\* p < q for the doubles p = p[1]/p[2] and q = q[1]/q[2]; a zero
\* denominator gives +inf, -inf or NaN, and NaN compares false
QuotientLT(p, q) ==
  LET nan(r)  == r[2] = 0 /\ r[1] = 0
      pinf(r) == r[2] = 0 /\ r[1] > 0
      ninf(r) == r[2] = 0 /\ r[1] < 0
      sgn(n)  == IF n < 0 THEN -1 ELSE 1
  IN  IF nan(p) \/ nan(q) THEN FALSE
      ELSE IF pinf(p) \/ ninf(q) THEN FALSE
      ELSE IF ninf(p) \/ pinf(q) THEN TRUE
      ELSE p[1] * sgn(p[2]) * Abs(q[2]) < q[1] * sgn(q[2]) * Abs(p[2])

\* std::max(p, q) = (p < q) ? q : p
QuotientMax(p, q) == IF QuotientLT(p, q) THEN q ELSE p

MonotonicStepEvaluator(initial_cost) ==
  [ type |-> "Monotonic", reference_cost |-> initial_cost ]

\* the evaluator of Toint's nonmonotonic algorithm: the reference cost is
\* the largest cost accepted in the current window of
\* max_consecutive_nonmonotonic_steps steps
TointNonMonotonicStepEvaluator(initial_cost, max_consecutive_nonmonotonic_steps) ==
  [ type |-> "TointNonMonotonic",
    max_consecutive_nonmonotonic_steps |-> max_consecutive_nonmonotonic_steps,
    minimum_cost   |-> initial_cost,
    current_cost   |-> initial_cost,
    reference_cost |-> initial_cost,
    candidate_cost |-> initial_cost,
    accumulated_reference_model_cost_change |-> 0,
    accumulated_candidate_model_cost_change |-> 0,
    num_consecutive_nonmonotonic_steps |-> 0 ]

\* variant: the decrease is always measured from the last accepted cost
StepQuality_FromCurrentCost(evaluator, cost, model_cost_change) ==
  << ( IF evaluator.type = "Monotonic"
       THEN evaluator.reference_cost ELSE evaluator.current_cost ) - cost,
     model_cost_change >>

\* Monotonic: (reference_cost - cost) / model_cost_change.
\* Nonmonotonic: the larger of the decrease relative to the current cost
\* and of the decrease relative to the reference cost over the model cost
\* change accumulated since the reference was set.
StepQuality(evaluator, cost, model_cost_change) ==
  IF evaluator.type = "Monotonic"
  THEN << evaluator.reference_cost - cost, model_cost_change >>
  ELSE QuotientMax(
         << evaluator.current_cost - cost, model_cost_change >>,
         << evaluator.reference_cost - cost,
            evaluator.accumulated_reference_model_cost_change
              + model_cost_change >>)

\* StepAccepted of the nonmonotonic evaluator
TointStepAccepted(e, cost, model_cost_change) ==
  LET candidate == e.accumulated_candidate_model_cost_change
                     + model_cost_change
      reference == e.accumulated_reference_model_cost_change
                     + model_cost_change
      e1 == IF cost < e.minimum_cost
            THEN [e EXCEPT
                    !.current_cost = cost,
                    !.minimum_cost = cost,
                    !.num_consecutive_nonmonotonic_steps = 0,
                    !.candidate_cost = cost,
                    !.accumulated_candidate_model_cost_change = 0,
                    !.accumulated_reference_model_cost_change = reference]
            ELSE [e EXCEPT
                    !.current_cost = cost,
                    !.num_consecutive_nonmonotonic_steps = @ + 1,
                    !.candidate_cost =
                       IF cost > e.candidate_cost THEN cost ELSE @,
                    !.accumulated_candidate_model_cost_change =
                       IF cost > e.candidate_cost THEN 0 ELSE candidate,
                    !.accumulated_reference_model_cost_change = reference]
  IN  IF e1.num_consecutive_nonmonotonic_steps =
           e1.max_consecutive_nonmonotonic_steps
      THEN [e1 EXCEPT
              !.reference_cost = e1.candidate_cost,
              !.accumulated_reference_model_cost_change =
                 e1.accumulated_candidate_model_cost_change]
      ELSE e1

EvaluatorStepAccepted(evaluator, cost, model_cost_change) ==
  IF evaluator.type = "Monotonic"
  THEN [evaluator EXCEPT !.reference_cost = cost]
  ELSE TointStepAccepted(evaluator, cost, model_cost_change)

\* the evaluator Minimize constructs once IterationZero has succeeded
NewStepEvaluator(cost) ==
  IF options_.use_nonmonotonic_steps
  THEN TointNonMonotonicStepEvaluator(
         cost, options_.max_consecutive_nonmonotonic_steps)
  ELSE MonotonicStepEvaluator(cost)

\* variant: the evaluator is told of every step that was tried
EvaluatorAfterStep_ToldOfEveryStep(evaluator, step_is_successful, cost, model_cost_change) ==
  EvaluatorStepAccepted(evaluator, cost, model_cost_change)

\* the evaluator after the step decision: the rejected branch leaves the
\* loop body before StepAccepted, the accepted branch calls it once
EvaluatorAfterStep(evaluator, step_is_successful, cost, model_cost_change) ==
  IF step_is_successful
  THEN EvaluatorStepAccepted(evaluator, cost, model_cost_change)
  ELSE evaluator

\* ------------------------------------------------------------------ history
NoIteration ==
  [ x |-> 0, cost |-> 0, parameters |-> 0,
    plus_ok |-> TRUE, evaluate_ok |-> TRUE,
    trial_x |-> 0, trial_cost |-> 0,
    inner_ran |-> FALSE, inner_ok |-> FALSE, inner_x |-> 0, inner_cost |-> 0,
    linear_solver |-> "none",
    line_search |-> "none", optimal_step_size |-> << 1, 1 >>,
    outcome |-> "none" ]

NoBoundary ==
  [ callback |-> FALSE, time |-> FALSE, iterations |-> FALSE,
    gradient |-> FALSE, radius |-> FALSE ]

InitialHistory ==
  [ accepted  |-> {},            \* <<x, cost>> of every accepted iterate
    iteration |-> NoIteration,   \* what happened in the current iteration
    boundary  |-> NoBoundary,    \* stop conditions at the last boundary
    invalid_iterations |-> 0,    \* loop iterations whose step was invalid
    trials_ok     |-> 0,         \* trial points evaluated successfully
    trials_failed |-> 0,         \* trial points where Plus or Evaluate failed
    line_searches |-> 0,         \* calls of LineSearch::Search
    initial_x     |-> 0,         \* the caller's buffer when Minimize was called
    stopped_in    |-> "none" ]   \* "boundary" or "body" once Minimize returned

\* no evaluator is driven outside the solve
EvaluatorIdle ==
  /\ step_evaluator = MonotonicStepEvaluator(0)
  /\ offered = << >>

\* --------------------------------------------------------- the ThreadPool
\* the threads that call Resize
Callers == {1, 2}

Tasks == 1 .. MaxTasks

NotCalling ==
  [ pc |-> "idle", num_threads |-> 0, num_current_threads |-> 0,
    num_threads_create |-> 0, i |-> 0 ]

\* ThreadPool(): no worker thread, an empty queue
ThreadPoolConstructed ==
  /\ thread_pool_ = << >>
  /\ task_queue_ = [queue |-> << >>, stop |-> FALSE]
  /\ thread_pool_mutex_ = 0
  /\ resize = [c \in Callers |-> NotCalling]
  /\ tasks = [ status |-> [t \in Tasks |-> "new"],
               pool_had_threads |-> [t \in Tasks |-> FALSE],
               resize_calls |-> 0,
               destroyed |-> FALSE,
               joined |-> 0 ]

\* no DynamicCompressedRowSparseMatrix is in use
MatrixIdle ==
  /\ dynamic_cols_ = << >> /\ dynamic_values_ = << >>
  /\ rows_ = << >> /\ cols_ = << >> /\ values_ = << >>
  /\ matrix = [ calls |-> 0, last |-> "none", args |-> << >>, held |-> << >>,
                cleared |-> FALSE ]

\* no ThreadPool is in use
ThreadPoolIdle ==
  /\ ThreadPoolConstructed
  /\ num_hardware_threads = 0

\* ------------------------------------------------------------ ParallelFor
\* the indices a range can hold
Indices == 0 .. MaxEnd - 1

\* the threads that can run the task of ParallelInvoke: 0 is the thread
\* that called ParallelFor, the others belong to the context's thread pool
CallingThread == 0

PoolThreads == 1 .. MaxPoolThreads

Participants == {CallingThread} \cup PoolThreads

NoCall ==
  [ overload |-> "none", context |-> FALSE, start |-> 0, end |-> 0,
    num_threads |-> 1, partitions |-> << >> ]

NotInParallelFor ==
  [ pc |-> "idle", start |-> 0, end |-> 0, function |-> "none",
    partitions |-> << >> ]

NoSharedState ==
  [ start |-> 0, end |-> 0, num_work_blocks |-> 0, base_block_size |-> 0,
    num_base_p1_sized_blocks |-> 0, block_id |-> 0, thread_id |-> 0,
    num_finished |-> 0 ]

NotInTask ==
  [ pc |-> "idle", thread_id |-> 0, curr_start |-> 0, curr_end |-> 0,
    num_jobs_finished |-> 0 ]

NothingInvoked == [ count |-> [i \in Indices |-> 0], segments |-> {} ]

\* no thread works on a ParallelFor
NoParallelWork ==
  /\ shared_state = NoSharedState
  /\ task_copies = 0
  /\ participants = [p \in Participants |-> NotInTask]
  /\ invoked = NothingInvoked

\* no ParallelFor is called
ParallelForIdle ==
  /\ call = NoCall
  /\ caller = NotInParallelFor
  /\ NoParallelWork

\* -------------------------------------------------------- Solver::Options
\* The doubles of the options are whole numbers here; the literal 1.0 of
\* the code is One, and NaN is a number of its own that every comparison
\* rejects.
One == 4

NaN == 99

OptionGT(x, y) == x # NaN /\ y # NaN /\ x > y

OptionGE(x, y) == x # NaN /\ y # NaN /\ x >= y

OptionLT(x, y) == x # NaN /\ y # NaN /\ x < y

OptionLE(x, y) == x # NaN /\ y # NaN /\ x <= y

\* options that pass Solver::Options::IsValid
DefaultSolverOptions ==
  [ minimizer_type |-> "TRUST_REGION",
    max_num_iterations |-> 1,
    max_solver_time_in_seconds |-> 1,
    function_tolerance |-> 1,
    gradient_tolerance |-> 1,
    parameter_tolerance |-> 1,
    num_threads |-> 1,
    check_gradients |-> FALSE,
    gradient_check_relative_precision |-> 1,
    gradient_check_numeric_derivative_relative_step_size |-> 1,
    initial_trust_region_radius |-> 2,
    min_trust_region_radius |-> 1,
    max_trust_region_radius |-> 3,
    min_relative_decrease |-> 1,
    min_lm_diagonal |-> 1,
    max_lm_diagonal |-> 2,
    max_num_consecutive_invalid_steps |-> 1,
    eta |-> 1,
    min_linear_solver_iterations |-> 0,
    max_linear_solver_iterations |-> 1,
    use_inner_iterations |-> FALSE,
    inner_iteration_tolerance |-> 1,
    use_nonmonotonic_steps |-> FALSE,
    max_consecutive_nonmonotonic_steps |-> 1,
    trust_region_strategy_type |-> "LEVENBERG_MARQUARDT",
    linear_solver_type |-> "DENSE_QR",
    linear_solver_is_available |-> TRUE,
    trust_region_minimizer_iterations_to_dump_empty |-> TRUE,
    trust_region_problem_dump_format_type |-> "TEXTFILE",
    trust_region_problem_dump_directory_empty |-> FALSE,
    max_lbfgs_rank |-> 1,
    min_line_search_step_size |-> 1,
    max_line_search_step_contraction |-> 1,
    min_line_search_step_contraction |-> 2,
    max_num_line_search_step_size_iterations |-> 1,
    line_search_sufficient_function_decrease |-> 1,
    line_search_sufficient_curvature_decrease |-> 3,
    max_line_search_step_expansion |-> 8,
    line_search_direction_type |-> "LBFGS",
    line_search_type |-> "WOLFE" ]

\* the values a caller may give to a field instead
OptionChanges ==
  { << "minimizer_type", "LINE_SEARCH" >>,
    << "check_gradients", TRUE >>,
    << "use_inner_iterations", TRUE >>,
    << "use_nonmonotonic_steps", TRUE >>,
    << "trust_region_strategy_type", "DOGLEG" >>,
    << "linear_solver_type", "CGNR" >>,
    << "linear_solver_is_available", FALSE >>,
    << "trust_region_minimizer_iterations_to_dump_empty", FALSE >>,
    << "trust_region_problem_dump_format_type", "CONSOLE" >>,
    << "trust_region_problem_dump_directory_empty", TRUE >>,
    << "line_search_direction_type", "STEEPEST_DESCENT" >>,
    << "line_search_type", "ARMIJO" >> }
  \cup
  { << f, -1 >> : f \in { "max_num_iterations", "max_solver_time_in_seconds",
                          "function_tolerance", "gradient_tolerance",
                          "parameter_tolerance", "min_relative_decrease",
                          "min_lm_diagonal", "max_lm_diagonal",
                          "max_num_consecutive_invalid_steps",
                          "min_linear_solver_iterations",
                          "max_linear_solver_iterations",
                          "inner_iteration_tolerance",
                          "max_num_line_search_step_size_iterations" } }
  \cup
  { << f, 0 >> : f \in { "max_num_iterations", "num_threads",
                         "gradient_check_relative_precision",
                         "gradient_check_numeric_derivative_relative_step_size",
                         "eta", "max_consecutive_nonmonotonic_steps",
                         "max_lbfgs_rank", "min_line_search_step_size",
                         "max_line_search_step_contraction",
                         "max_num_line_search_step_size_iterations",
                         "line_search_sufficient_function_decrease" } }
  \cup
  { << f, v >> : f \in { "initial_trust_region_radius",
                         "min_trust_region_radius",
                         "max_trust_region_radius" },
                 v \in {-1, 0, 1, 2, 3, NaN} }
  \cup
  { << "num_threads", 2 >>,
    << "min_lm_diagonal", 3 >>,
    << "min_linear_solver_iterations", 2 >>,
    << "max_line_search_step_contraction", 2 >>,
    << "max_line_search_step_contraction", One >>,
    << "min_line_search_step_contraction", 1 >>,
    << "min_line_search_step_contraction", One + 1 >>,
    << "line_search_sufficient_function_decrease", 3 >>,
    << "line_search_sufficient_curvature_decrease", 1 >>,
    << "line_search_sufficient_curvature_decrease", One >>,
    << "max_line_search_step_expansion", One >> }

\* the options with up to n fields changed
RECURSIVE ChangedOptions(_)
ChangedOptions(n) ==
  IF n = 0 THEN { DefaultSolverOptions }
  ELSE LET fewer == ChangedOptions(n - 1)
       IN  fewer \cup { [ options EXCEPT ![change[1]] = change[2] ] :
                          options \in fewer, change \in OptionChanges }

\* OPTION_OP, OPTION_OP_OPTION: a list of constraints is gone through in
\* order, *error names the first one violated and the function returns
\* false; "" when none is violated and *error is left as it was
FirstViolated_Last(checks) ==
  LET violated == { k \in 1 .. Len(checks) : ~checks[k][1] }
  IN  IF violated = {} THEN ""
      ELSE checks[CHOOSE k \in violated : \A j \in violated : j <= k][2]

FirstViolated(checks) ==
  LET violated == { k \in 1 .. Len(checks) : ~checks[k][1] }
  IN  IF violated = {} THEN ""
      ELSE checks[CHOOSE k \in violated : \A j \in violated : k <= j][2]

\* bool CommonOptionsAreValid(options, error)
CommonOptionsChecks(options) ==
  << << OptionGE(options.max_num_iterations, 0),
        "max_num_iterations >= 0" >>,
     << OptionGE(options.max_solver_time_in_seconds, 0),
        "max_solver_time_in_seconds >= 0.0" >>,
     << OptionGE(options.function_tolerance, 0),
        "function_tolerance >= 0.0" >>,
     << OptionGE(options.gradient_tolerance, 0),
        "gradient_tolerance >= 0.0" >>,
     << OptionGE(options.parameter_tolerance, 0),
        "parameter_tolerance >= 0.0" >>,
     << OptionGT(options.num_threads, 0),
        "num_threads > 0" >>,
     << options.check_gradients =>
          OptionGT(options.gradient_check_relative_precision, 0),
        "gradient_check_relative_precision > 0.0" >>,
     << options.check_gradients =>
          OptionGT(options.gradient_check_numeric_derivative_relative_step_size,
                   0),
        "gradient_check_numeric_derivative_relative_step_size > 0.0" >> >>

\* IsIterativeSolver(type)
IsIterativeSolver(type) == type \in {"CGNR", "ITERATIVE_SCHUR"}

\* bool TrustRegionOptionsAreValid(options, error)
TrustRegionOptionsChecks(options) ==
  << << OptionGT(options.initial_trust_region_radius, 0),
        "initial_trust_region_radius > 0.0" >>,
     << OptionGT(options.min_trust_region_radius, 0),
        "min_trust_region_radius > 0.0" >>,
     << OptionGT(options.max_trust_region_radius, 0),
        "max_trust_region_radius > 0.0" >>,
     << OptionLE(options.min_trust_region_radius,
                 options.max_trust_region_radius),
        "min_trust_region_radius <= max_trust_region_radius" >>,
     << OptionLE(options.min_trust_region_radius,
                 options.initial_trust_region_radius),
        "min_trust_region_radius <= initial_trust_region_radius" >>,
     << OptionLE(options.initial_trust_region_radius,
                 options.max_trust_region_radius),
        "initial_trust_region_radius <= max_trust_region_radius" >>,
     << OptionGE(options.min_relative_decrease, 0),
        "min_relative_decrease >= 0.0" >>,
     << OptionGE(options.min_lm_diagonal, 0),
        "min_lm_diagonal >= 0.0" >>,
     << OptionGE(options.max_lm_diagonal, 0),
        "max_lm_diagonal >= 0.0" >>,
     << OptionLE(options.min_lm_diagonal, options.max_lm_diagonal),
        "min_lm_diagonal <= max_lm_diagonal" >>,
     << OptionGE(options.max_num_consecutive_invalid_steps, 0),
        "max_num_consecutive_invalid_steps >= 0" >>,
     << OptionGT(options.eta, 0),
        "eta > 0.0" >>,
     << OptionGE(options.min_linear_solver_iterations, 0),
        "min_linear_solver_iterations >= 0" >>,
     << OptionGE(options.max_linear_solver_iterations, 0),
        "max_linear_solver_iterations >= 0" >>,
     << OptionLE(options.min_linear_solver_iterations,
                 options.max_linear_solver_iterations),
        "min_linear_solver_iterations <= max_linear_solver_iterations" >>,
     << options.use_inner_iterations =>
          OptionGE(options.inner_iteration_tolerance, 0),
        "inner_iteration_tolerance >= 0.0" >>,
     << options.use_nonmonotonic_steps =>
          OptionGT(options.max_consecutive_nonmonotonic_steps, 0),
        "max_consecutive_nonmonotonic_steps > 0" >>,
     << ~( options.trust_region_strategy_type = "DOGLEG"
           /\ IsIterativeSolver(options.linear_solver_type) ),
        "DOGLEG only supports exact factorization based linear solvers" >>,
     << options.linear_solver_is_available,
        "Can't use the linear solver" >>,
     << ~( /\ ~options.trust_region_minimizer_iterations_to_dump_empty
           /\ options.trust_region_problem_dump_format_type # "CONSOLE"
           /\ options.trust_region_problem_dump_directory_empty ),
        "trust_region_problem_dump_directory is empty" >> >>

\* bool LineSearchOptionsAreValid(options, error)
LineSearchOptionsChecks(options) ==
  << << OptionGT(options.max_lbfgs_rank, 0),
        "max_lbfgs_rank > 0" >>,
     << OptionGT(options.min_line_search_step_size, 0),
        "min_line_search_step_size > 0.0" >>,
     << OptionGT(options.max_line_search_step_contraction, 0),
        "max_line_search_step_contraction > 0.0" >>,
     << OptionLT(options.max_line_search_step_contraction, One),
        "max_line_search_step_contraction < 1.0" >>,
     << OptionLT(options.max_line_search_step_contraction,
                 options.min_line_search_step_contraction),
        "max_line_search_step_contraction < min_line_search_step_contraction" >>,
     << OptionLE(options.min_line_search_step_contraction, One),
        "min_line_search_step_contraction <= 1.0" >>,
     << OptionGE(options.max_num_line_search_step_size_iterations,
                 IF options.minimizer_type = "TRUST_REGION" THEN 0 ELSE 1),
        "max_num_line_search_step_size_iterations >= (TRUST_REGION ? 0 : 1)" >>,
     << OptionGT(options.line_search_sufficient_function_decrease, 0),
        "line_search_sufficient_function_decrease > 0.0" >>,
     << OptionLT(options.line_search_sufficient_function_decrease,
                 options.line_search_sufficient_curvature_decrease),
        "line_search_sufficient_function_decrease < line_search_sufficient_curvature_decrease" >>,
     << OptionLT(options.line_search_sufficient_curvature_decrease, One),
        "line_search_sufficient_curvature_decrease < 1.0" >>,
     << OptionGT(options.max_line_search_step_expansion, One),
        "max_line_search_step_expansion > 1.0" >>,
     << ~( /\ options.line_search_direction_type \in {"BFGS", "LBFGS"}
           /\ options.line_search_type # "WOLFE" ),
        "line_search_type must be set to WOLFE" >> >>

CommonOptionsAreValid(options) == FirstViolated(CommonOptionsChecks(options))

TrustRegionOptionsAreValid(options) ==
  FirstViolated(TrustRegionOptionsChecks(options))

LineSearchOptionsAreValid(options) ==
  FirstViolated(LineSearchOptionsChecks(options))

\* bool Solver::Options::IsValid(string* error): the error, "" for valid
\* options
IsValid_LineSearchOptionsOfLineSearch(options) ==
  IF CommonOptionsAreValid(options) # ""
  THEN CommonOptionsAreValid(options)
  ELSE IF /\ options.minimizer_type = "TRUST_REGION"
          /\ TrustRegionOptionsAreValid(options) # ""
       THEN TrustRegionOptionsAreValid(options)
  ELSE IF options.minimizer_type = "TRUST_REGION" THEN ""
  ELSE LineSearchOptionsAreValid(options)

IsValid(options) ==
  IF CommonOptionsAreValid(options) # ""
  THEN CommonOptionsAreValid(options)
  ELSE IF /\ options.minimizer_type = "TRUST_REGION"
          /\ TrustRegionOptionsAreValid(options) # ""
       THEN TrustRegionOptionsAreValid(options)
  ELSE LineSearchOptionsAreValid(options)

\* Solver::Summary(): the summary of a solve that has not run
NewSummary ==
  [ termination_type |-> "FAILURE",
    message          |-> "ceres::Solve was not called.",
    initial_cost     |-> -1,
    final_cost       |-> -1,
    fixed_cost       |-> -1,
    iterations       |-> << >> ]     \* the cost of every iteration summary

\* given_summary and given_state are what the caller passed, calls are the
\* stages Solve has gone through
NotInSolve ==
  [ pc |-> "idle", calls |-> << >>, given_summary |-> NewSummary,
    given_state |-> 0, reduced_parameters |-> 0,
    original_reduced_parameters |-> 0, status |-> FALSE,
    num_parameter_blocks |-> 0, gradient_error_detected |-> FALSE ]

\* Solver::Solve is not called
SolveIdle ==
  /\ solver_options = DefaultSolverOptions
  /\ user_state = 0
  /\ summary = NewSummary
  /\ solve = NotInSolve

\* --------------------------------------------------------------------- Init
Init ==
  /\ pc = "Minimize"
  /\ options_ \in OptionsSet
  /\ parameters \in X
  /\ solver_summary_ = InitialSummary(FixedCost)
  /\ iteration_summary_ = IterationSummary
  /\ x_ = 0 /\ x_norm_ = 0 /\ x_plus_delta_ = 0 /\ delta_ = 0
  /\ trust_region_step_ = 0
  /\ cost_ = 0 /\ residuals_ = 0 /\ gradient_ = 0
  /\ jacobian_ = [num |-> 0, den |-> 1]
  /\ scale_ = Ones
  /\ model_cost_change_ = 0
  /\ new_cost = 0
  /\ minimum_cost = 0
  /\ num_consecutive_invalid_steps_ = 0
  /\ inner_iterations_are_enabled_ = FALSE
  /\ inner_iterations_were_useful_ = FALSE
  /\ step_evaluator_ = MonotonicStepEvaluator(0)
  /\ strategy_ = [calls |-> << >>]
  /\ history = InitialHistory
  /\ EvaluatorIdle
  /\ ThreadPoolIdle
  /\ ParallelForIdle
  /\ MatrixIdle
  /\ SolveIdle

\* --------------------------------------------- EvaluateGradientAndJacobian
\* variant: the scale is computed from every Jacobian
ScaleIsComputedIn_EveryIteration(iteration) == TRUE

\* the scale is computed from the Jacobian of iteration 0
ScaleIsComputedIn(iteration) == iteration = 0

\* variant: the columns are scaled only where the scale is computed
JacobianAfterEvaluation_ScaledInIterationZero(evaluated, scale, iteration) ==
  IF options_.jacobi_scaling /\ iteration = 0
  THEN ScaleColumns(evaluated, scale) ELSE evaluated

\* with Jacobi scaling the columns of every evaluated Jacobian are scaled
JacobianAfterEvaluation(evaluated, scale, iteration) ==
  IF options_.jacobi_scaling THEN ScaleColumns(evaluated, scale) ELSE evaluated

\* The values of cost_, residuals_, gradient_, jacobian_, scale_, the
\* iteration summary and the solver summary after the call, and its result.
EvaluateGradientAndJacobian(x, scale, is, ss, evaluate_ok, plus_ok) ==
  IF ~evaluate_ok
  THEN [ ok |-> FALSE, cost |-> cost_, residuals |-> residuals_,
         gradient |-> gradient_, jacobian |-> jacobian_, scale |-> scale,
         is |-> is,
         ss |-> [ss EXCEPT
                   !.message = "Residual and Jacobian evaluation failed.",
                   !.termination_type = "FAILURE"] ]
  ELSE
    LET evaluated == [num |-> JacobianAt(x), den |-> 1]
        sc  == IF options_.jacobi_scaling /\ ScaleIsComputedIn(is.iteration)
               THEN JacobiScale(evaluated) ELSE scale
        jac == JacobianAfterEvaluation(evaluated, sc, is.iteration)
        is1 == [is EXCEPT !.cost = CostAt(x) + ss.fixed_cost]
        projected_gradient_step ==
               Plus(options_.is_constrained, x, - GradientAt(x))
    IN  [ ok |-> plus_ok, cost |-> CostAt(x), residuals |-> ResidualAt(x),
          gradient |-> GradientAt(x), jacobian |-> jac, scale |-> sc,
          is |-> IF plus_ok
                 THEN [is1 EXCEPT
                         !.gradient_max_norm = Abs(x - projected_gradient_step),
                         !.gradient_norm = Abs(x - projected_gradient_step)]
                 ELSE is1,
          ss |-> IF plus_ok THEN ss
                 ELSE [ss EXCEPT
                         !.message =
                           "projected_gradient_step = Plus(x, -gradient) failed.",
                         !.termination_type = "FAILURE"] ]

\* ------------------------------------------- Minimize: Init, IterationZero
\* variant: the initial point is taken as it is
ProjectedInitialPoint_AsGiven(is_constrained, initial_x) == initial_x

\* x_ after the projection of the initial point: Plus(x, 0) on a
\* constrained problem, the initial point itself otherwise
ProjectedInitialPoint(is_constrained, initial_x) ==
  IF is_constrained THEN Plus(TRUE, initial_x, 0) ELSE initial_x

\* variant: x_ is copied to the caller's buffer before the result of
\* IterationZero is tested
BufferAfterIterationZero_CopiedFirst(succeeded, buffer, x) == x

\* the caller's buffer after RETURN_IF_ERROR_AND_LOG(IterationZero()) and
\* VectorRef(parameters, num_parameters_) = x_
BufferAfterIterationZero(succeeded, buffer, x) == IF succeeded THEN x ELSE buffer

\* variant: the result of the call is ignored
RETURN_IF_ERROR_AND_LOG_Ignored(expr) == FALSE

\* RETURN_IF_ERROR_AND_LOG(expr): Minimize returns when expr is false
RETURN_IF_ERROR_AND_LOG(expr) == ~expr

\* Init(), IterationZero(), the copy of x_ to the caller's buffer, the
\* construction of the step evaluator and the initial minimum_cost.
IterationZero ==
  /\ pc = "Minimize"
  /\ \E project_ok \in IF options_.is_constrained THEN BOOLEAN ELSE {TRUE} :
       LET ss0 == [solver_summary_ EXCEPT
                     !.termination_type = "NO_CONVERGENCE",
                     !.num_successful_steps = 0,
                     !.num_unsuccessful_steps = 0]
           x0  == ProjectedInitialPoint(options_.is_constrained, parameters)
       IN
       /\ inner_iterations_are_enabled_' = options_.inner_iteration_minimizer
       /\ inner_iterations_were_useful_' = FALSE
       /\ num_consecutive_invalid_steps_' = 0
       /\ IF ~project_ok
          THEN
            /\ pc' = "done"
            /\ solver_summary_' =
                 [ss0 EXCEPT
                    !.message =
                      "Unable to project initial point onto the feasible set.",
                    !.termination_type = "FAILURE"]
            /\ iteration_summary_' = IterationSummary
            /\ x_' = parameters
            /\ x_norm_' = Abs(parameters)
            /\ delta_' = 0
            /\ scale_' = Ones
            /\ history' = [history EXCEPT !.stopped_in = "IterationZero",
                                         !.initial_x = parameters]
            /\ UNCHANGED << parameters, x_plus_delta_, cost_, residuals_,
                            gradient_, jacobian_, minimum_cost,
                            step_evaluator_ >>
          ELSE
            \E evaluate_ok \in BOOLEAN :
            \E plus_ok \in IF evaluate_ok THEN BOOLEAN ELSE {TRUE} :
              LET r == EvaluateGradientAndJacobian(
                         x0, Ones, IterationSummary, ss0, evaluate_ok, plus_ok)
              IN
              /\ x_' = x0
              /\ x_norm_' = Abs(x0)
              /\ delta_' = IF options_.is_constrained THEN 0 ELSE delta_
              /\ x_plus_delta_' =
                   IF options_.is_constrained THEN x0 ELSE x_plus_delta_
              /\ cost_' = r.cost
              /\ residuals_' = r.residuals
              /\ gradient_' = r.gradient
              /\ jacobian_' = r.jacobian
              /\ scale_' = r.scale
              /\ iteration_summary_' = r.is
              /\ parameters' =
                   BufferAfterIterationZero(~RETURN_IF_ERROR_AND_LOG(r.ok),
                                            parameters, x0)
              /\ IF ~RETURN_IF_ERROR_AND_LOG(r.ok)
                 THEN
                   /\ pc' = "Finalize"
                   /\ solver_summary_' =
                        [r.ss EXCEPT
                           !.initial_cost = r.cost + r.ss.fixed_cost]
                   /\ step_evaluator_' = NewStepEvaluator(r.cost)
                   /\ minimum_cost' = r.cost
                   /\ history' =
                        [history EXCEPT !.accepted = { << x0, r.cost >> },
                                        !.initial_x = parameters]
                 ELSE
                   /\ pc' = "done"
                   /\ solver_summary_' = r.ss
                   /\ history' =
                        [history EXCEPT !.stopped_in = "IterationZero",
                                        !.initial_x = parameters]
                   /\ UNCHANGED << step_evaluator_, minimum_cost >>
  /\ UNCHANGED << not_minimizer, options_, trust_region_step_, model_cost_change_,
                  new_cost, strategy_ >>


\* ---------------------------- FinalizeIterationAndCheckIfMinimizerCanContinue
CallbackResults == {"SOLVER_CONTINUE", "SOLVER_ABORT", "SOLVER_TERMINATE_SUCCESSFULLY"}

\* Minimizer::RunCallbacks: the summary after the callbacks have run
RunCallbacks(callback, ss) ==
  IF callback = "SOLVER_ABORT"
  THEN [ss EXCEPT !.termination_type = "USER_FAILURE",
                  !.message = "User callback returned SOLVER_ABORT."]
  ELSE IF callback = "SOLVER_TERMINATE_SUCCESSFULLY"
  THEN [ss EXCEPT !.termination_type = "USER_SUCCESS",
                  !.message =
                    "User callback returned SOLVER_TERMINATE_SUCCESSFULLY."]
  ELSE ss

\* variant: the gradient tolerance is tested before the iteration cap
StopChecks_GradientBeforeCap(is, ss, total_solver_time) ==
  IF total_solver_time >= options_.max_solver_time_in_seconds
  THEN [continue |-> FALSE,
        ss |-> [ss EXCEPT !.message = "Maximum solver time reached.",
                          !.termination_type = "NO_CONVERGENCE"]]
  ELSE IF /\ (is.step_is_successful \/ is.iteration = 0)
          /\ is.gradient_max_norm <= options_.gradient_tolerance
  THEN [continue |-> FALSE,
        ss |-> [ss EXCEPT !.message = "Gradient tolerance reached.",
                          !.termination_type = "CONVERGENCE"]]
  ELSE IF is.iteration >= options_.max_num_iterations
  THEN [continue |-> FALSE,
        ss |-> [ss EXCEPT !.message = "Maximum number of iterations reached.",
                          !.termination_type = "NO_CONVERGENCE"]]
  ELSE IF is.trust_region_radius < options_.min_trust_region_radius
  THEN [continue |-> FALSE,
        ss |-> [ss EXCEPT
                  !.message = "Termination. Minimum trust region radius reached.",
                  !.termination_type = "CONVERGENCE"]]
  ELSE [continue |-> TRUE, ss |-> ss]

\* variant: the gradient tolerance is tested at every boundary
StopChecks_GradientAtEveryBoundary(is, ss, total_solver_time) ==
  IF total_solver_time >= options_.max_solver_time_in_seconds
  THEN [continue |-> FALSE,
        ss |-> [ss EXCEPT !.message = "Maximum solver time reached.",
                          !.termination_type = "NO_CONVERGENCE"]]
  ELSE IF is.iteration >= options_.max_num_iterations
  THEN [continue |-> FALSE,
        ss |-> [ss EXCEPT !.message = "Maximum number of iterations reached.",
                          !.termination_type = "NO_CONVERGENCE"]]
  ELSE IF is.gradient_max_norm <= options_.gradient_tolerance
  THEN [continue |-> FALSE,
        ss |-> [ss EXCEPT !.message = "Gradient tolerance reached.",
                          !.termination_type = "CONVERGENCE"]]
  ELSE IF is.trust_region_radius < options_.min_trust_region_radius
  THEN [continue |-> FALSE,
        ss |-> [ss EXCEPT
                  !.message = "Termination. Minimum trust region radius reached.",
                  !.termination_type = "CONVERGENCE"]]
  ELSE [continue |-> TRUE, ss |-> ss]

\* variant: the minimum radius ends the solve without a message of its own
StopChecks_RadiusWithoutMessage(is, ss, total_solver_time) ==
  IF total_solver_time >= options_.max_solver_time_in_seconds
  THEN [continue |-> FALSE,
        ss |-> [ss EXCEPT !.message = "Maximum solver time reached.",
                          !.termination_type = "NO_CONVERGENCE"]]
  ELSE IF is.iteration >= options_.max_num_iterations
  THEN [continue |-> FALSE,
        ss |-> [ss EXCEPT !.message = "Maximum number of iterations reached.",
                          !.termination_type = "NO_CONVERGENCE"]]
  ELSE IF /\ (is.step_is_successful \/ is.iteration = 0)
          /\ is.gradient_max_norm <= options_.gradient_tolerance
  THEN [continue |-> FALSE,
        ss |-> [ss EXCEPT !.message = "Gradient tolerance reached.",
                          !.termination_type = "CONVERGENCE"]]
  ELSE IF is.trust_region_radius < options_.min_trust_region_radius
  THEN [continue |-> FALSE,
        ss |-> [ss EXCEPT !.termination_type = "CONVERGENCE"]]
  ELSE [continue |-> TRUE, ss |-> ss]

\* The stop checks that follow the callbacks, in the order of the code:
\* the summary they leave and whether the minimizer can continue.
StopChecks(is, ss, total_solver_time) ==
  IF total_solver_time >= options_.max_solver_time_in_seconds
  THEN [continue |-> FALSE,
        ss |-> [ss EXCEPT !.message = "Maximum solver time reached.",
                          !.termination_type = "NO_CONVERGENCE"]]
  ELSE IF is.iteration >= options_.max_num_iterations
  THEN [continue |-> FALSE,
        ss |-> [ss EXCEPT !.message = "Maximum number of iterations reached.",
                          !.termination_type = "NO_CONVERGENCE"]]
  ELSE IF /\ (is.step_is_successful \/ is.iteration = 0)
          /\ is.gradient_max_norm <= options_.gradient_tolerance
  THEN [continue |-> FALSE,
        ss |-> [ss EXCEPT !.message = "Gradient tolerance reached.",
                          !.termination_type = "CONVERGENCE"]]
  ELSE IF is.trust_region_radius < options_.min_trust_region_radius
  THEN [continue |-> FALSE,
        ss |-> [ss EXCEPT
                  !.message = "Termination. Minimum trust region radius reached.",
                  !.termination_type = "CONVERGENCE"]]
  ELSE [continue |-> TRUE, ss |-> ss]

\* variant: the stop checks run whatever the callbacks returned
BoundaryResult_ChecksAfterCallbacks(callback, is, ss, total_solver_time) ==
  StopChecks(is, ss, total_solver_time)

\* if (!RunCallbacks(...)) return false: a callback that does not return
\* SOLVER_CONTINUE ends the boundary before any stop check
BoundaryResult(callback, is, ss, total_solver_time) ==
  IF callback # "SOLVER_CONTINUE"
  THEN [continue |-> FALSE, ss |-> ss]
  ELSE StopChecks(is, ss, total_solver_time)

FinalizeIterationAndCheckIfMinimizerCanContinue ==
  /\ pc = "Finalize"
  /\ \E radius \in Radii, callback \in CallbackResults,
        total_solver_time \in SolverTimes :
       LET is  == [iteration_summary_ EXCEPT !.trust_region_radius = radius]
           ss1 == [solver_summary_ EXCEPT
                     !.iterations_back = is,
                     !.num_iterations = @ + 1,
                     !.iterations = PushBack(@, is)]
           ss2 == RunCallbacks(callback, ss1)
           r   == BoundaryResult(callback, is, ss2, total_solver_time)
       IN
       /\ iteration_summary_' = is
       /\ solver_summary_' = r.ss
       /\ pc' = IF r.continue THEN "ComputeTrustRegionStep" ELSE "done"
       /\ history' =
            [history EXCEPT
               !.stopped_in = IF r.continue THEN "none" ELSE "boundary",
               !.boundary =
               [ callback   |-> callback # "SOLVER_CONTINUE",
                 time       |-> total_solver_time >=
                                  options_.max_solver_time_in_seconds,
                 iterations |-> is.iteration >= options_.max_num_iterations,
                 gradient   |-> is.gradient_max_norm <=
                                  options_.gradient_tolerance,
                 radius     |-> radius < options_.min_trust_region_radius ]]
  /\ UNCHANGED << not_minimizer, options_, parameters, x_, x_norm_, x_plus_delta_, delta_,
                  trust_region_step_, cost_, residuals_, gradient_, jacobian_,
                  scale_, model_cost_change_, new_cost, minimum_cost,
                  num_consecutive_invalid_steps_,
                  inner_iterations_are_enabled_,
                  inner_iterations_were_useful_, step_evaluator_, strategy_ >>

\* --------------------------------------------------- ComputeTrustRegionStep
\* the steps the strategy may return: delta = step .* scale is a whole
\* number of at most MaxStep and, without bounds, x + delta stays in X;
\* with bounds, where the line search may shorten the step and Plus
\* projects the trial point, delta is at most MaxStep + 1
TrustRegionSteps ==
  { (d * scale_.den) \div scale_.num : d \in
      { e \in -(MaxStep + 1) .. MaxStep + 1 :
          \/ options_.is_constrained
          \/ Abs(e) <= MaxStep /\ x_ + e \in X } }

\* TrustRegionStrategy::Summary::termination_type
LinearSolverTerminationTypes ==
  { "LINEAR_SOLVER_SUCCESS", "LINEAR_SOLVER_FAILURE",
    "LINEAR_SOLVER_FATAL_ERROR" }

\* variant: every failure of the linear solver is fatal
IsFatalError_AnyFailure(termination_type) ==
  termination_type # "LINEAR_SOLVER_SUCCESS"

\* the strategy result on which ComputeTrustRegionStep returns false
IsFatalError(termination_type) ==
  termination_type = "LINEAR_SOLVER_FATAL_ERROR"

\* variant: a step is valid when the model cost does not increase
IsStepValid_NonNegative(model_cost_change) == model_cost_change >= 0

\* step_is_valid = (model_cost_change_ > 0.0)
IsStepValid(model_cost_change) == model_cost_change > 0

\* variant: the new record repeats the number of the last one
NextIteration_Repeated(back) == back.iteration

\* iteration_summary_.iteration = iterations.back().iteration + 1
NextIteration(back) == back.iteration + 1

\* The head of the loop body (a fresh iteration summary with the next
\* iteration number) and ComputeTrustRegionStep().
ComputeTrustRegionStep ==
  /\ pc = "ComputeTrustRegionStep"
  /\ \E termination_type \in LinearSolverTerminationTypes :
     LET is == [IterationSummary EXCEPT
                  !.iteration = NextIteration(solver_summary_.iterations_back)]
         h  == [history EXCEPT
                  !.iteration = [NoIteration EXCEPT
                                   !.x = x_, !.cost = cost_,
                                   !.parameters = parameters,
                                   !.linear_solver = termination_type]]
     IN
     /\ strategy_' = [strategy_ EXCEPT !.calls = << "ComputeStep" >>]
     /\ IF IsFatalError(termination_type)
        THEN
           /\ solver_summary_' =
                [solver_summary_ EXCEPT
                   !.message = "Linear solver failed due to unrecoverable non-numeric causes.",
                   !.termination_type = "FAILURE"]
           /\ iteration_summary_' = is
           /\ history' = [h EXCEPT !.iteration.outcome = "fatal",
                                    !.stopped_in = "body"]
           /\ pc' = "done"
           /\ UNCHANGED << trust_region_step_, model_cost_change_ >>
        ELSE IF termination_type = "LINEAR_SOLVER_FAILURE"
        THEN
           /\ iteration_summary_' = [is EXCEPT !.step_is_valid = FALSE]
           /\ history' = h
           /\ pc' = "HandleInvalidStep"
           /\ UNCHANGED << solver_summary_, trust_region_step_,
                           model_cost_change_ >>
        ELSE
           \E step \in TrustRegionSteps :
             LET change == ModelCostChange(jacobian_, residuals_, step)
             IN
             /\ trust_region_step_' = step
             /\ model_cost_change_' = change
             /\ iteration_summary_' =
                  [is EXCEPT !.step_is_valid = IsStepValid(change)]
             /\ history' = h
             /\ pc' = IF IsStepValid(change)
                      THEN "TrialStep" ELSE "HandleInvalidStep"
             /\ UNCHANGED solver_summary_
  /\ UNCHANGED << not_minimizer, options_, parameters, x_, x_norm_, x_plus_delta_, delta_,
                  cost_, residuals_, gradient_, jacobian_, scale_, new_cost,
                  minimum_cost, num_consecutive_invalid_steps_,
                  inner_iterations_are_enabled_,
                  inner_iterations_were_useful_, step_evaluator_ >>

\* --------------------------------------------------------- HandleInvalidStep
\* variant: the strategy is not told of an invalid step
StepIsInvalid_NotCalled(strategy) == strategy

\* strategy_->StepIsInvalid()
StepIsInvalid(strategy) == [strategy EXCEPT !.calls = Append(@, "StepIsInvalid")]

\* variant: an invalid or rejected step is not counted
CountUnsuccessfulStep_NotCounted(ss) == ss

\* ++solver_summary->num_unsuccessful_steps
CountUnsuccessfulStep(ss) == [ss EXCEPT !.num_unsuccessful_steps = @ + 1]

\* variant: the gradient norms of the fresh record are left as they are
InvalidStepSummary_WithoutGradient(is, back, cost) ==
  [is EXCEPT !.cost = cost,
             !.cost_change = 0,
             !.step_norm = 0,
             !.relative_decrease = << 0, 1 >>]

\* the record of a tolerated invalid step: a step of length zero and no
\* progress, with the gradient norms of the last appended record
InvalidStepSummary(is, back, cost) ==
  [is EXCEPT !.cost = cost,
             !.cost_change = 0,
             !.gradient_max_norm = back.gradient_max_norm,
             !.gradient_norm = back.gradient_norm,
             !.step_norm = 0,
             !.relative_decrease = << 0, 1 >>]

HandleInvalidStep ==
  /\ pc = "HandleInvalidStep"
  /\ num_consecutive_invalid_steps_' = num_consecutive_invalid_steps_ + 1
  /\ IF num_consecutive_invalid_steps_ + 1 >=
          options_.max_num_consecutive_invalid_steps
     THEN
       /\ solver_summary_' =
            [solver_summary_ EXCEPT
               !.message = "Number of successive invalid steps more than Solver::Options::max_num_consecutive_invalid_steps",
               !.termination_type = "FAILURE"]
       /\ pc' = "done"
       /\ UNCHANGED << iteration_summary_, strategy_ >>
     ELSE
       /\ solver_summary_' =
            CountUnsuccessfulStep(solver_summary_)
       /\ strategy_' = StepIsInvalid(strategy_)
       /\ iteration_summary_' =
            InvalidStepSummary(iteration_summary_,
                               solver_summary_.iterations_back,
                               cost_ + solver_summary_.fixed_cost)
       /\ pc' = "Finalize"
  /\ history' =
       [history EXCEPT
          !.iteration.outcome = "invalid",
          !.invalid_iterations = @ + 1,
          !.stopped_in =
             IF num_consecutive_invalid_steps_ + 1 >=
                  options_.max_num_consecutive_invalid_steps
             THEN "body" ELSE "none"]
  /\ UNCHANGED << not_minimizer, options_, parameters, x_, x_norm_, x_plus_delta_, delta_,
                  trust_region_step_, cost_, residuals_, gradient_, jacobian_,
                  scale_, model_cost_change_, new_cost, minimum_cost,
                  inner_iterations_are_enabled_,
                  inner_iterations_were_useful_, step_evaluator_ >>


\* ------------------------------------------------ step application and trial
\* LineSearch::Search: failure, or success with an optimal step size in
\* (0, 1] that keeps delta a whole number
LineSearchResults(delta) ==
  { [success |-> FALSE, num |-> 1, den |-> 1],
    [success |-> TRUE,  num |-> 1, den |-> 1] } \cup
  ( IF delta % 2 = 0 /\ delta # 0
    THEN { [success |-> TRUE, num |-> 1, den |-> 2] } ELSE {} )

\* variant: a failed search leaves no step
DoLineSearch_NoStepOnFailure(delta, search) ==
  IF search.success THEN (delta * search.num) \div search.den ELSE 0

\* DoLineSearch: delta after the search
DoLineSearch(delta, search) ==
  IF search.success THEN (delta * search.num) \div search.den ELSE delta

\* variant: a failed trial is given the cost zero
TrialCost_ZeroOnFailure(plus_ok, evaluate_ok, trial) ==
  IF plus_ok /\ evaluate_ok THEN CostAt(trial) ELSE 0

\* new_cost after Plus and Evaluate at the trial point: a failure of
\* either leaves the cost of the step at the largest double
TrialCost(plus_ok, evaluate_ok, trial) ==
  IF plus_ok /\ evaluate_ok THEN CostAt(trial) ELSE DBL_MAX

\* variant: the test reads the configured minimizer, not the enabled flag
InnerIterationsShouldRun_Configured(trial_cost, enabled) ==
  trial_cost < DBL_MAX /\ options_.inner_iteration_minimizer

\* inner iterations run on a trial point of finite cost while enabled
InnerIterationsShouldRun(trial_cost, enabled) ==
  trial_cost < DBL_MAX /\ enabled

\* variant: a valid step leaves the counter of invalid steps as it is
CounterAfterValidStep_Kept(count) == count

\* num_consecutive_invalid_steps_ = 0 at the head of the valid-step branch
CounterAfterValidStep(count) == 0

\* The valid-step branch up to the trial evaluation: the reset of the
\* invalid-step counter, delta_, the line search, Plus and Evaluate.
TrialStep ==
  /\ pc = "TrialStep"
  /\ num_consecutive_invalid_steps_' =
       CounterAfterValidStep(num_consecutive_invalid_steps_)
  /\ \E search \in IF options_.is_constrained
                   THEN LineSearchResults(ScaleStep(trust_region_step_, scale_))
                   ELSE { [success |-> FALSE, num |-> 1, den |-> 1] } :
     \E plus_ok \in BOOLEAN :
     \E evaluate_ok \in IF plus_ok THEN BOOLEAN ELSE {FALSE} :
     \E left_in_buffer \in IF plus_ok THEN {0} ELSE X :
       LET delta == IF options_.is_constrained
                    THEN DoLineSearch(ScaleStep(trust_region_step_, scale_),
                                      search)
                    ELSE ScaleStep(trust_region_step_, scale_)
           trial == IF plus_ok
                    THEN Plus(options_.is_constrained, x_, delta)
                    ELSE left_in_buffer
           cost  == TrialCost(plus_ok, evaluate_ok, trial)
       IN
       /\ delta_' = delta
       /\ x_plus_delta_' = trial
       /\ new_cost' = cost
       /\ history' = [history EXCEPT
                        !.iteration.plus_ok = plus_ok,
                        !.iteration.evaluate_ok = evaluate_ok,
                        !.iteration.trial_x = trial,
                        !.iteration.trial_cost = cost,
                        !.iteration.outcome = "trial",
                        !.iteration.line_search =
                           IF ~options_.is_constrained THEN "none"
                           ELSE IF search.success THEN "found" ELSE "failed",
                        !.iteration.optimal_step_size =
                           << search.num, search.den >>,
                        !.line_searches =
                           IF options_.is_constrained THEN @ + 1 ELSE @,
                        !.trials_ok =
                           IF plus_ok /\ evaluate_ok THEN @ + 1 ELSE @,
                        !.trials_failed =
                           IF plus_ok /\ evaluate_ok THEN @ ELSE @ + 1]
       /\ pc' = IF InnerIterationsShouldRun(cost,
                                            inner_iterations_are_enabled_)
                THEN "DoInnerIterations" ELSE "StepDecision"
  /\ UNCHANGED << not_minimizer, options_, parameters, solver_summary_, iteration_summary_,
                  x_, x_norm_, trust_region_step_, cost_, residuals_,
                  gradient_, jacobian_, scale_, model_cost_change_,
                  minimum_cost, inner_iterations_are_enabled_,
                  inner_iterations_were_useful_, step_evaluator_, strategy_ >>

\* ---------------------------------------------------------- inner iterations
\* 1 - inner_iteration_cost / new_cost > inner_iteration_tolerance
RelativeProgressExceeds(inner_iteration_cost, trial_cost, tolerance) ==
  /\ trial_cost > 0
  /\ trial_cost - inner_iteration_cost > tolerance * trial_cost

\* variant: the result is used only when it lowers the trial cost
InnerIterationResultIsUsed_OnlyIfLower(inner_iteration_cost, trial_cost) ==
  inner_iteration_cost < trial_cost

\* the result of the inner iterations is used when its cost is finite
InnerIterationResultIsUsed(inner_iteration_cost, trial_cost) ==
  inner_iteration_cost < DBL_MAX

\* DoInnerIterations() and the use the loop body makes of its result
DoInnerIterations ==
  /\ pc = "DoInnerIterations"
  /\ \E inner_iteration_x \in X, evaluate_ok \in BOOLEAN :
       LET inner_iteration_cost ==
             IF evaluate_ok THEN CostAt(inner_iteration_x) ELSE DBL_MAX
       IN
       /\ solver_summary_' =
            [solver_summary_ EXCEPT !.num_inner_iteration_steps = @ + 1]
       /\ x_plus_delta_' =
            IF evaluate_ok THEN inner_iteration_x ELSE x_plus_delta_
       /\ IF InnerIterationResultIsUsed(inner_iteration_cost, new_cost)
          THEN
            /\ model_cost_change_' =
                 model_cost_change_ + (new_cost - inner_iteration_cost)
            /\ inner_iterations_were_useful_' = (inner_iteration_cost < cost_)
            /\ inner_iterations_are_enabled_' =
                 RelativeProgressExceeds(inner_iteration_cost, new_cost,
                                         options_.inner_iteration_tolerance)
            /\ new_cost' = inner_iteration_cost
          ELSE
            UNCHANGED << model_cost_change_, inner_iterations_were_useful_,
                         inner_iterations_are_enabled_, new_cost >>
       /\ history' = [history EXCEPT
                        !.iteration.inner_ran = TRUE,
                        !.iteration.inner_ok = evaluate_ok,
                        !.iteration.inner_x = inner_iteration_x,
                        !.iteration.inner_cost = inner_iteration_cost]
  /\ pc' = "StepDecision"
  /\ UNCHANGED << not_minimizer, options_, parameters, iteration_summary_, x_, x_norm_,
                  delta_, trust_region_step_, cost_, residuals_, gradient_,
                  jacobian_, scale_, minimum_cost,
                  num_consecutive_invalid_steps_, step_evaluator_, strategy_ >>

\* ------------------------------------------- tolerances and the step decision
\* the iteration summary with cost_change and step_norm of the candidate
CandidateSummary ==
  [iteration_summary_ EXCEPT
     !.cost_change = cost_ - new_cost,
     !.step_norm = Abs(x_ - x_plus_delta_)]

\* variant: the tolerance is purely relative to the norm of x
ParameterToleranceReached_Relative ==
  CandidateSummary.step_norm <= options_.parameter_tolerance * x_norm_

ParameterToleranceReached ==
  CandidateSummary.step_norm <=
    options_.parameter_tolerance * (x_norm_ + options_.parameter_tolerance)

FunctionToleranceReached ==
  Abs(CandidateSummary.cost_change) <= options_.function_tolerance * cost_

RelativeDecrease == StepQuality(step_evaluator_, new_cost, model_cost_change_)

IsStepSuccessful ==
  \/ inner_iterations_were_useful_
  \/ QuotientGT(RelativeDecrease[1], RelativeDecrease[2],
                options_.min_relative_decrease)

\* variant: the candidate becomes the iterate when a tolerance is reached
PointAtConvergence_Candidate(x, x_plus_delta) == x_plus_delta

\* x_ when Minimize returns on a tolerance: the return precedes
\* x_ = x_plus_delta_
PointAtConvergence(x, x_plus_delta) == x

\* return with CONVERGENCE on the parameter or the function tolerance
ToleranceReached ==
  /\ pc = "StepDecision"
  /\ ParameterToleranceReached \/ FunctionToleranceReached
  /\ iteration_summary_' = CandidateSummary
  /\ solver_summary_' =
       [solver_summary_ EXCEPT
          !.message = IF ParameterToleranceReached
                      THEN "Parameter tolerance reached."
                      ELSE "Function tolerance reached.",
          !.termination_type = "CONVERGENCE"]
  /\ history' = [history EXCEPT
                   !.iteration.outcome =
                      IF ParameterToleranceReached
                      THEN "parameter_tolerance" ELSE "function_tolerance",
                   !.stopped_in = "body"]
  /\ x_' = PointAtConvergence(x_, x_plus_delta_)
  /\ pc' = "done"
  /\ UNCHANGED << not_minimizer, options_, parameters, x_norm_, x_plus_delta_, delta_,
                  trust_region_step_, cost_, residuals_, gradient_, jacobian_,
                  scale_, model_cost_change_, new_cost, minimum_cost,
                  num_consecutive_invalid_steps_,
                  inner_iterations_are_enabled_,
                  inner_iterations_were_useful_, step_evaluator_, strategy_ >>

\* the unsuccessful branch of the loop body
HandleUnsuccessfulStep ==
  /\ pc = "StepDecision"
  /\ ~ParameterToleranceReached /\ ~FunctionToleranceReached
  /\ ~IsStepSuccessful
  /\ solver_summary_' =
       CountUnsuccessfulStep(solver_summary_)
  /\ strategy_' = [strategy_ EXCEPT !.calls = Append(@, "StepRejected")]
  /\ iteration_summary_' =
       [CandidateSummary EXCEPT
          !.relative_decrease = RelativeDecrease,
          !.step_is_successful = FALSE,
          !.cost = new_cost + solver_summary_.fixed_cost]
  /\ step_evaluator_' =
       EvaluatorAfterStep(step_evaluator_, FALSE, new_cost, model_cost_change_)
  /\ history' = [history EXCEPT !.iteration.outcome = "rejected"]
  /\ pc' = "Finalize"
  /\ UNCHANGED << not_minimizer, options_, parameters, x_, x_norm_, x_plus_delta_, delta_,
                  trust_region_step_, cost_, residuals_, gradient_, jacobian_,
                  scale_, model_cost_change_, new_cost, minimum_cost,
                  num_consecutive_invalid_steps_,
                  inner_iterations_are_enabled_,
                  inner_iterations_were_useful_ >>

\* variant: every accepted iterate is copied out
IsNewMinimum_Always(cost, minimum) == TRUE

\* the accepted iterate is copied out when it has the lowest cost so far
IsNewMinimum(cost, minimum) == cost < minimum

\* variant: an accepted step leaves x where it was
AcceptedPoint_Kept(x, x_plus_delta) == x

\* x_ = x_plus_delta_ after an accepted step
AcceptedPoint(x, x_plus_delta) == x_plus_delta

\* the successful branch of the loop body
HandleSuccessfulStep ==
  /\ pc = "StepDecision"
  /\ ~ParameterToleranceReached /\ ~FunctionToleranceReached
  /\ IsStepSuccessful
  /\ \E evaluate_ok \in BOOLEAN :
     \E plus_ok \in IF evaluate_ok THEN BOOLEAN ELSE {TRUE} :
       LET is == [CandidateSummary EXCEPT
                    !.relative_decrease = RelativeDecrease,
                    !.step_is_successful = TRUE]
           ss == [solver_summary_ EXCEPT !.num_successful_steps = @ + 1]
           x  == AcceptedPoint(x_, x_plus_delta_)
           r  == EvaluateGradientAndJacobian(
                   x, scale_, is, ss, evaluate_ok, plus_ok)
       IN
       /\ strategy_' = [strategy_ EXCEPT !.calls = Append(@, "StepAccepted")]
       /\ step_evaluator_' =
            EvaluatorAfterStep(step_evaluator_, TRUE, new_cost,
                               model_cost_change_)
       /\ x_' = x
       /\ x_norm_' = Abs(x)
       /\ cost_' = r.cost
       /\ residuals_' = r.residuals
       /\ gradient_' = r.gradient
       /\ jacobian_' = r.jacobian
       /\ scale_' = r.scale
       /\ iteration_summary_' = r.is
       /\ solver_summary_' = r.ss
       /\ IF ~RETURN_IF_ERROR_AND_LOG(r.ok)
          THEN
            /\ pc' = "Finalize"
            /\ minimum_cost' =
                 IF IsNewMinimum(r.cost, minimum_cost)
                 THEN r.cost ELSE minimum_cost
            /\ parameters' =
                 IF IsNewMinimum(r.cost, minimum_cost)
                 THEN x ELSE parameters
            /\ history' =
                 [history EXCEPT
                    !.iteration.outcome = "accepted",
                    !.accepted = @ \cup { << x, r.cost >> }]
          ELSE
            /\ pc' = "done"
            /\ history' =
                 [history EXCEPT !.iteration.outcome = "accepted_failure",
                                 !.stopped_in = "body"]
            /\ UNCHANGED << minimum_cost, parameters >>
  /\ UNCHANGED << not_minimizer, options_, x_plus_delta_, delta_, trust_region_step_,
                  model_cost_change_, new_cost,
                  num_consecutive_invalid_steps_,
                  inner_iterations_are_enabled_,
                  inner_iterations_were_useful_ >>

\* ---------------------------------------------------------------------- Next
Next ==
  \/ IterationZero
  \/ FinalizeIterationAndCheckIfMinimizerCanContinue
  \/ ComputeTrustRegionStep
  \/ HandleInvalidStep
  \/ TrialStep
  \/ DoInnerIterations
  \/ ToleranceReached
  \/ HandleUnsuccessfulStep
  \/ HandleSuccessfulStep

Spec == Init /\ [][Next]_vars

\* Every call Minimize makes returns: a step that is enabled is taken.
LiveSpec == Spec /\ WF_vars(Next)

TypeOK ==
  /\ pc \in {"Minimize", "Finalize", "ComputeTrustRegionStep",
             "HandleInvalidStep", "TrialStep", "DoInnerIterations",
             "StepDecision", "done"}
  /\ options_ \in OptionsSet
  /\ parameters \in X
  /\ x_ \in X /\ x_plus_delta_ \in X
  /\ (jacobian_.num * trust_region_step_) % jacobian_.den = 0
  /\ (trust_region_step_ * scale_.num) % scale_.den = 0
  /\ RightMultiply(jacobian_, trust_region_step_) % 2 = 0

\* ------------------------------------------- the step evaluator on its own
\* no Minimize is running
MinimizerIdle ==
  /\ pc = "idle"
  /\ options_ = DefaultOptions
  /\ parameters = 0
  /\ solver_summary_ = InitialSummary(0)
  /\ iteration_summary_ = IterationSummary
  /\ x_ = 0 /\ x_norm_ = 0 /\ x_plus_delta_ = 0 /\ delta_ = 0
  /\ trust_region_step_ = 0
  /\ cost_ = 0 /\ residuals_ = 0 /\ gradient_ = 0
  /\ jacobian_ = [num |-> 0, den |-> 1]
  /\ scale_ = Ones
  /\ model_cost_change_ = 0
  /\ new_cost = 0
  /\ minimum_cost = 0
  /\ num_consecutive_invalid_steps_ = 0
  /\ inner_iterations_are_enabled_ = FALSE
  /\ inner_iterations_were_useful_ = FALSE
  /\ step_evaluator_ = MonotonicStepEvaluator(0)
  /\ strategy_ = [calls |-> << >>]
  /\ history = InitialHistory

MinCost == 9

CostValues == MinCost .. MaxCost

ModelCostChanges == 1 .. MaxModelCostChange

\* the cost of the last accepted point
CurrentCost(e) ==
  IF e.type = "Monotonic" THEN e.reference_cost ELSE e.current_cost

EvaluatorInit ==
  /\ MinimizerIdle
  /\ ThreadPoolIdle
  /\ ParallelForIdle
  /\ MatrixIdle
  /\ SolveIdle
  /\ offered = << >>
  /\ \E initial_cost \in CostValues :
       step_evaluator \in
         { MonotonicStepEvaluator(initial_cost) } \cup
         { TointNonMonotonicStepEvaluator(initial_cost, w) :
             w \in NonmonotonicWindows }

\* One step is offered to the evaluator as the loop body offers it: the
\* step is successful when StepQuality exceeds min_relative_decrease, and
\* StepAccepted is called for a successful step only.
OfferStep ==
  /\ Len(offered) < MaxOffers
  /\ \E cost \in CostValues, model_cost_change \in ModelCostChanges :
       LET relative_decrease ==
             StepQuality(step_evaluator, cost, model_cost_change)
           step_is_successful ==
             QuotientGT(relative_decrease[1], relative_decrease[2],
                        DefaultOptions.min_relative_decrease)
       IN
       /\ step_evaluator' =
            EvaluatorAfterStep(step_evaluator, step_is_successful, cost,
                               model_cost_change)
       /\ offered' =
            Append(offered,
                   [ from |-> CurrentCost(step_evaluator),
                     cost |-> cost,
                     model_cost_change |-> model_cost_change,
                     step_is_successful |-> step_is_successful ])
  /\ UNCHANGED not_evaluator

EvaluatorNext == OfferStep

EvaluatorSpec == EvaluatorInit /\ [][EvaluatorNext]_vars

\* ------------------------------------------------------- ThreadPool: actions
Min(a, b) == IF a < b THEN a ELSE b

Max(a, b) == IF a < b THEN b ELSE a

\* variant: the request is not capped by the hardware
ConstrainNumThreads_Uncapped(requested_num_threads) == requested_num_threads

\* the number of threads the hardware supports caps the request;
\* hardware_concurrency() = 0 means that the number is not known
ConstrainNumThreads(requested_num_threads) ==
  IF num_hardware_threads = 0
  THEN requested_num_threads
  ELSE Min(requested_num_threads, num_hardware_threads)

\* int ThreadPool::Size()
Size == Len(thread_pool_)

ThreadPoolInit ==
  /\ MinimizerIdle
  /\ EvaluatorIdle
  /\ ParallelForIdle
  /\ MatrixIdle
  /\ SolveIdle
  /\ ThreadPoolConstructed
  /\ num_hardware_threads \in 0 .. MaxHardwareThreads

\* a caller enters Resize(num_threads) and waits for the mutex
ResizeCall(c) ==
  /\ resize[c].pc = "idle"
  /\ ~tasks.destroyed
  /\ tasks.resize_calls < MaxResizeCalls
  /\ \E num_threads \in 0 .. MaxThreads :
       resize' = [resize EXCEPT ![c] = [NotCalling EXCEPT
                                          !.pc = "lock",
                                          !.num_threads = num_threads]]
  /\ tasks' = [tasks EXCEPT !.resize_calls = @ + 1]
  /\ UNCHANGED << not_thread_pool,
                  thread_pool_, task_queue_, thread_pool_mutex_,
                  num_hardware_threads >>

\* the caller takes the mutex, reads the size and returns early when the
\* pool is large enough
ResizeLock(c) ==
  /\ resize[c].pc = "lock"
  /\ thread_pool_mutex_ = 0
  /\ thread_pool_mutex_' = c
  /\ resize' =
       [resize EXCEPT ![c] =
          IF Size >= resize[c].num_threads
          THEN [@ EXCEPT !.pc = "return", !.num_current_threads = Size]
          ELSE [@ EXCEPT !.pc = "create",
                         !.num_current_threads = Size,
                         !.num_threads_create =
                            ConstrainNumThreads(resize[c].num_threads),
                         !.i = 0]]
  /\ UNCHANGED << not_thread_pool,
                  thread_pool_, task_queue_, num_hardware_threads, tasks >>

\* one turn of the loop that starts the threads: a new thread begins
\* ThreadMainLoop; the loop ends when i reaches the number to create
ResizeCreate(c) ==
  /\ resize[c].pc = "create"
  /\ IF resize[c].i <
          resize[c].num_threads_create - resize[c].num_current_threads
     THEN /\ thread_pool_' = Append(thread_pool_, [at |-> "Pop", task |-> 0])
          /\ resize' = [resize EXCEPT ![c].i = @ + 1]
     ELSE /\ resize' = [resize EXCEPT ![c].pc = "return"]
          /\ UNCHANGED thread_pool_
  /\ UNCHANGED << not_thread_pool,
                  task_queue_, thread_pool_mutex_, num_hardware_threads,
                  tasks >>

\* Resize returns: the lock is released
ResizeReturn(c) ==
  /\ resize[c].pc = "return"
  /\ thread_pool_mutex_' = 0
  /\ resize' = [resize EXCEPT ![c] = NotCalling]
  /\ UNCHANGED << not_thread_pool,
                  thread_pool_, task_queue_, num_hardware_threads, tasks >>

\* AddTask(func): the task is pushed on the queue; the tasks are numbered
\* in the order in which they are given to the pool
AddTask(t) ==
  /\ tasks.status[t] = "new"
  /\ \A earlier \in 1 .. t - 1 : tasks.status[earlier] # "new"
  /\ ~tasks.destroyed
  /\ task_queue_' = [task_queue_ EXCEPT !.queue = Append(@, t)]
  /\ tasks' = [tasks EXCEPT !.status[t] = "queued",
                            !.pool_had_threads[t] = Size >= 1]
  /\ UNCHANGED << not_thread_pool,
                  thread_pool_, thread_pool_mutex_, num_hardware_threads,
                  resize >>

\* ThreadMainLoop: Pop blocks while the queue is empty and not stopped; it
\* hands out the oldest task, or returns false on an empty stopped queue
WorkerPop(w) ==
  /\ thread_pool_[w].at = "Pop"
  /\ \/ /\ task_queue_.queue # << >>
        /\ thread_pool_' =
             [thread_pool_ EXCEPT ![w] = [at |-> "task",
                                          task |-> Head(task_queue_.queue)]]
        /\ task_queue_' = [task_queue_ EXCEPT !.queue = Tail(@)]
        /\ tasks' = [tasks EXCEPT
                       !.status[Head(task_queue_.queue)] = "running"]
     \/ /\ task_queue_.queue = << >>
        /\ task_queue_.stop
        /\ thread_pool_' =
             [thread_pool_ EXCEPT ![w] = [at |-> "exit", task |-> 0]]
        /\ UNCHANGED << task_queue_, tasks >>
  /\ UNCHANGED << not_thread_pool,
                  thread_pool_mutex_, num_hardware_threads, resize >>

\* variant: the thread leaves its loop after one task
ThreadAfterTask_Exits == [at |-> "exit", task |-> 0]

\* while (task_queue_.Pop(&task)) { task(); }: after a task the thread
\* calls Pop again
ThreadAfterTask == [at |-> "Pop", task |-> 0]

\* ThreadMainLoop: task() returns
WorkerRun(w) ==
  /\ thread_pool_[w].at = "task"
  /\ tasks' = [tasks EXCEPT !.status[thread_pool_[w].task] = "done"]
  /\ thread_pool_' = [thread_pool_ EXCEPT ![w] = ThreadAfterTask]
  /\ UNCHANGED << not_thread_pool,
                  task_queue_, thread_pool_mutex_, num_hardware_threads,
                  resize >>

\* ~ThreadPool(): Stop().  The owner destroys the pool when no call of
\* Resize is in progress.
Destroy ==
  /\ ~tasks.destroyed
  /\ \A c \in Callers : resize[c].pc = "idle"
  /\ task_queue_' = [task_queue_ EXCEPT !.stop = TRUE]
  /\ tasks' = [tasks EXCEPT !.destroyed = TRUE]
  /\ UNCHANGED << not_thread_pool,
                  thread_pool_, thread_pool_mutex_, num_hardware_threads,
                  resize >>

\* variant: join returns while the thread is still in its main loop
JoinReturns_AtOnce(thread) == TRUE

\* thread.join() returns once the thread has left ThreadMainLoop
JoinReturns(thread) == thread.at = "exit"

\* ~ThreadPool(): one turn of the loop that joins the threads in the order
\* of thread_pool_
DestroyJoin ==
  /\ tasks.destroyed
  /\ tasks.joined < Len(thread_pool_)
  /\ JoinReturns(thread_pool_[tasks.joined + 1])
  /\ tasks' = [tasks EXCEPT !.joined = @ + 1]
  /\ UNCHANGED << not_thread_pool,
                  thread_pool_, task_queue_, thread_pool_mutex_,
                  num_hardware_threads, resize >>

\* ~ThreadPool() has returned: Stop was called and every thread is joined
DestructorReturned == tasks.destroyed /\ tasks.joined = Len(thread_pool_)

Workers == 1 .. Len(thread_pool_)

ThreadPoolNext ==
  \/ \E c \in Callers : ResizeCall(c)
  \/ \E c \in Callers : ResizeLock(c)
  \/ \E c \in Callers : ResizeCreate(c)
  \/ \E c \in Callers : ResizeReturn(c)
  \/ \E t \in Tasks : AddTask(t)
  \/ \E w \in Workers : WorkerPop(w)
  \/ \E w \in Workers : WorkerRun(w)
  \/ Destroy
  \/ DestroyJoin

ThreadPoolSpec == ThreadPoolInit /\ [][ThreadPoolNext]_vars

\* Tasks return and the threads of the pool are scheduled: a worker that
\* can leave Pop does, and a task that runs ends.
ThreadPoolLiveSpec ==
  /\ ThreadPoolSpec
  /\ WF_vars(\E w \in Workers : WorkerPop(w))
  /\ WF_vars(\E w \in Workers : WorkerRun(w))

\* ------------------------------------------------- ParallelFor, the call
\* the increasing sequence that holds the elements of S
RECURSIVE Increasing(_)
Increasing(S) ==
  IF S = {} THEN << >>
  ELSE LET least == CHOOSE i \in S : \A j \in S : i <= j
       IN  << least >> \o Increasing(S \ {least})

\* the partitions a caller may pass: partitions.front() = start,
\* partitions.back() = end, increasing in between
Partitions(start, end) ==
  { Increasing({start, end} \cup S) : S \in SUBSET (start + 1 .. end - 1) }

\* the partitions overload works on kNumPartitionsPerThread partitions a thread
kNumPartitionsPerThread == 4

\* ComputePartition: at most max_partitions consecutive ranges that
\* cover [start, end)
ComputePartition(start, end, max_partitions) ==
  { partitions \in Partitions(start, end) :
      Len(partitions) - 1 <= max_partitions }

\* ParallelFor(context, start, end, num_threads, function): where the
\* calling thread goes next
ParallelForRange(context, start, end, num_threads, function, partitions) ==
  LET to(label) == [ pc |-> label, start |-> start, end |-> end,
                     function |-> function, partitions |-> partitions ]
  IN  IF start >= end THEN [NotInParallelFor EXCEPT !.pc = "returned"]
      ELSE IF num_threads = 1 \/ end - start = 1
           THEN to("InvokeOnSegment")
      ELSE IF ~context THEN [NotInParallelFor EXCEPT !.pc = "CHECK failed"]
      ELSE to("ParallelInvoke")

\* ParallelFor(context, start, end, num_threads, function, partitions):
\* small ranges go to the overload above, the others are worked on
\* partition by partition
ParallelForPartitions(context, start, end, num_threads, partitions) ==
  IF start >= end THEN [NotInParallelFor EXCEPT !.pc = "returned"]
  ELSE IF num_threads = 1 \/ end - start <= num_threads
       THEN ParallelForRange(context, start, end, num_threads,
                             "function", << >>)
  ELSE ParallelForRange(context, 0, Len(partitions) - 1, num_threads,
                        "partitions", partitions)

\* ParallelFor(context, start, end, num_threads, function,
\* cumulative_cost_data, cumulative_cost_fun): the partitions are computed
\* from the costs
ParallelForCumulativeCost(context, start, end, num_threads, partitions) ==
  IF start >= end THEN [NotInParallelFor EXCEPT !.pc = "returned"]
  ELSE IF num_threads = 1 \/ end - start <= num_threads
       THEN ParallelForRange(context, start, end, num_threads,
                             "function", << >>)
  ELSE ParallelForPartitions(context, start, end, num_threads, partitions)

\* the indices of the partitions partition_start .. partition_end - 1
SegmentOfPartitions_ByPartitionId(partitions, partition_start, partition_end) ==
  << partition_start, partition_end >>

SegmentOfPartitions(partitions, partition_start, partition_end) ==
  << partitions[partition_start + 1], partitions[partition_end + 1] >>

\* InvokeOnSegment(thread_id, (first, last), function): the function runs
\* for every index of the range; the lambda of the partitions overload
\* hands the indices of its partitions to the function of the caller
InvokeOnSegment(inv, participant, thread_id, first, last, function, partitions) ==
  LET range == IF function = "partitions"
               THEN SegmentOfPartitions(partitions, first, last)
               ELSE << first, last >>
  IN  [ count    |-> [ i \in Indices |->
                         IF range[1] <= i /\ i < range[2]
                         THEN inv.count[i] + 1 ELSE inv.count[i] ],
        segments |-> inv.segments \cup
                       { [ participant |-> participant,
                           thread_id   |-> thread_id,
                           first       |-> range[1],
                           last        |-> range[2] ] } ]

\* the calls ParallelFor can get
Calls ==
  { [ overload |-> "range", context |-> context, start |-> start,
      end |-> end, num_threads |-> num_threads, partitions |-> << >> ] :
      context \in BOOLEAN, start \in 0 .. MaxEnd, end \in 0 .. MaxEnd,
      num_threads \in 1 .. MaxParallelThreads }
  \cup
  { [ overload |-> "cumulative_cost", context |-> context, start |-> start,
      end |-> end, num_threads |-> num_threads, partitions |-> << >> ] :
      context \in BOOLEAN, start \in 0 .. MaxEnd, end \in 0 .. MaxEnd,
      num_threads \in 1 .. MaxParallelThreads }
  \cup
  UNION { { [ overload |-> "partitions", context |-> context,
              start |-> start, end |-> end, num_threads |-> num_threads,
              partitions |-> partitions ] :
              context \in BOOLEAN,
              num_threads \in 1 .. MaxParallelThreads,
              partitions \in IF start < end THEN Partitions(start, end)
                             ELSE { << >> } } :
          start \in 0 .. MaxEnd, end \in 0 .. MaxEnd }

ParallelForInit ==
  /\ MinimizerIdle
  /\ EvaluatorIdle
  /\ ThreadPoolIdle
  /\ SolveIdle
  /\ MatrixIdle
  /\ call \in Calls
  /\ caller = [NotInParallelFor EXCEPT !.pc = "ParallelFor"]
  /\ NoParallelWork

\* the calling thread enters ParallelFor and goes through the overloads
ParallelForCall ==
  /\ caller.pc = "ParallelFor"
  /\ \/ /\ call.overload = "range"
        /\ caller' = ParallelForRange(call.context, call.start, call.end,
                                      call.num_threads, "function", << >>)
     \/ /\ call.overload = "partitions"
        /\ caller' = ParallelForPartitions(call.context, call.start,
                                           call.end, call.num_threads,
                                           call.partitions)
     \/ /\ call.overload = "cumulative_cost"
        /\ \E partitions \in
                IF call.start < call.end
                THEN ComputePartition(call.start, call.end,
                       call.num_threads * kNumPartitionsPerThread)
                ELSE { << >> } :
             caller' = ParallelForCumulativeCost(call.context, call.start,
                         call.end, call.num_threads, partitions)
  /\ UNCHANGED << not_parallel_for, call, shared_state, task_copies,
                  participants, invoked >>

\* num_threads == 1 or one index: the whole range on the calling thread,
\* as thread 0
InvokeOnCallingThread ==
  /\ caller.pc = "InvokeOnSegment"
  /\ invoked' = InvokeOnSegment(invoked, CallingThread, 0, caller.start,
                                caller.end, caller.function,
                                caller.partitions)
  /\ caller' = [caller EXCEPT !.pc = "returned"]
  /\ UNCHANGED << not_parallel_for, call, shared_state, task_copies,
                  participants >>

\* ------------------------------------------------------- ParallelInvoke
\* a thread works on at most kWorkBlocksPerThread blocks
kWorkBlocksPerThread == 4

\* ThreadPoolState(start, end, num_work_blocks)
ThreadPoolState(start, end, num_work_blocks) ==
  [ start |-> start, end |-> end, num_work_blocks |-> num_work_blocks,
    base_block_size |-> (end - start) \div num_work_blocks,
    num_base_p1_sized_blocks |-> (end - start) % num_work_blocks,
    block_id |-> 0, thread_id |-> 0, num_finished |-> 0 ]

\* ParallelInvoke: the shared state is made, the calling thread runs the
\* task itself and then blocks until every block is finished
ParallelInvoke ==
  /\ caller.pc = "ParallelInvoke"
  /\ shared_state' =
       ThreadPoolState(caller.start, caller.end,
                       Min(caller.end - caller.start,
                           call.num_threads * kWorkBlocksPerThread))
  /\ participants' = [participants EXCEPT
                        ![CallingThread] = [NotInTask EXCEPT !.pc = "task"]]
  /\ caller' = [caller EXCEPT !.pc = "Block"]
  /\ UNCHANGED << not_parallel_for, call, task_copies, invoked >>

\* a thread of the pool takes a copy of the task from the queue
PoolThreadTakesTask(p) ==
  /\ p \in PoolThreads
  /\ participants[p].pc \in {"idle", "end"}
  /\ task_copies > 0
  /\ task_copies' = task_copies - 1
  /\ participants' = [participants EXCEPT ![p] = [NotInTask EXCEPT
                                                    !.pc = "task"]]
  /\ UNCHANGED << not_parallel_for, call, caller, shared_state, invoked >>

\* thread_id = shared_state->thread_id.fetch_add(1); a task beyond
\* num_threads returns
TaskThreadId(p) ==
  /\ participants[p].pc = "task"
  /\ shared_state' = [shared_state EXCEPT !.thread_id = @ + 1]
  /\ participants' = [participants EXCEPT
       ![p] = [@ EXCEPT
                 !.thread_id = shared_state.thread_id,
                 !.pc = IF shared_state.thread_id >= call.num_threads
                        THEN "end" ELSE "spawn"]]
  /\ UNCHANGED << not_parallel_for, call, caller, task_copies, invoked >>

\* while threads and blocks are left, the task queues a copy of itself
TaskAddTask(p) ==
  /\ participants[p].pc = "spawn"
  /\ task_copies' =
       IF /\ participants[p].thread_id + 1 < call.num_threads
          /\ shared_state.block_id < shared_state.num_work_blocks
       THEN task_copies + 1 ELSE task_copies
  /\ participants' = [participants EXCEPT ![p] = [@ EXCEPT !.pc = "loop"]]
  /\ UNCHANGED << not_parallel_for, call, caller, shared_state, invoked >>

\* block_id = shared_state->block_id.fetch_add(1): the next block, or
\* Finished(num_jobs_finished) when none is left
TaskNextBlock(p) ==
  /\ participants[p].pc = "loop"
  /\ LET block_id   == shared_state.block_id
         curr_start == shared_state.start
                         + block_id * shared_state.base_block_size
                         + Min(block_id,
                               shared_state.num_base_p1_sized_blocks)
         curr_end   == curr_start + shared_state.base_block_size
                         + ( IF block_id
                                  < shared_state.num_base_p1_sized_blocks
                             THEN 1 ELSE 0 )
     IN  IF block_id >= shared_state.num_work_blocks
         THEN /\ shared_state' =
                   [shared_state EXCEPT
                      !.block_id = @ + 1,
                      !.num_finished =
                         @ + participants[p].num_jobs_finished]
              /\ participants' =
                   [participants EXCEPT ![p] = [@ EXCEPT !.pc = "end"]]
         ELSE /\ shared_state' = [shared_state EXCEPT !.block_id = @ + 1]
              /\ participants' =
                   [participants EXCEPT
                      ![p] = [@ EXCEPT !.pc = "invoke",
                                       !.num_jobs_finished = @ + 1,
                                       !.curr_start = curr_start,
                                       !.curr_end = curr_end]]
  /\ UNCHANGED << not_parallel_for, call, caller, task_copies, invoked >>

\* InvokeOnSegment(thread_id, (curr_start, curr_end), function)
TaskInvokeOnSegment(p) ==
  /\ participants[p].pc = "invoke"
  /\ invoked' = InvokeOnSegment(invoked, p, participants[p].thread_id,
                                participants[p].curr_start,
                                participants[p].curr_end,
                                caller.function, caller.partitions)
  /\ participants' = [participants EXCEPT ![p] = [@ EXCEPT !.pc = "loop"]]
  /\ UNCHANGED << not_parallel_for, call, caller, shared_state,
                  task_copies >>

\* block_until_finished.Block(): the calling thread has left its task and
\* waits until num_work_blocks jobs are reported finished
Block ==
  /\ caller.pc = "Block"
  /\ participants[CallingThread].pc = "end"
  /\ shared_state.num_finished = shared_state.num_work_blocks
  /\ caller' = [caller EXCEPT !.pc = "returned"]
  /\ UNCHANGED << not_parallel_for, call, shared_state, task_copies,
                  participants, invoked >>

ParallelForNext ==
  \/ ParallelForCall
  \/ InvokeOnCallingThread
  \/ ParallelInvoke
  \/ \E p \in PoolThreads : PoolThreadTakesTask(p)
  \/ \E p \in Participants : TaskThreadId(p)
  \/ \E p \in Participants : TaskAddTask(p)
  \/ \E p \in Participants : TaskNextBlock(p)
  \/ \E p \in Participants : TaskInvokeOnSegment(p)
  \/ Block

ParallelForSpec == ParallelForInit /\ [][ParallelForNext]_vars

\* ------------------------------------------------------------ Solver::Solve
\* what a summary left by an earlier solve can hold
StaleSummaries ==
  { NewSummary,
    [ termination_type |-> "CONVERGENCE",
      message          |-> "Function tolerance reached.",
      initial_cost     |-> 3,
      final_cost       |-> 2,
      fixed_cost       |-> 0,
      iterations       |-> << 3, 2 >> ] }

\* how Minimizer::Minimize can end
MinimizerOutcomes ==
  { [ termination_type |-> "CONVERGENCE",
      message |-> "Function tolerance reached." ],
    [ termination_type |-> "NO_CONVERGENCE",
      message |-> "Maximum number of iterations reached." ],
    [ termination_type |-> "FAILURE",
      message |-> "Residual and Jacobian evaluation failed." ],
    [ termination_type |-> "USER_SUCCESS",
      message |-> "User callback returned success." ],
    [ termination_type |-> "USER_FAILURE",
      message |-> "User callback returned failure." ] }

\* the values of the parameter of the problem
ParameterValues == {0, 1}

\* the costs of the iteration summaries a minimizer can leave: none when
\* the initial evaluation fails, and no lowest cost at the end when steps
\* are nonmonotonic
IterationCosts == { << >>, << 3 >>, << 3, 2 >>, << 3, 2, 4 >> }

\* internal::SetSummaryFinalCost: the lowest cost of the iterations, the
\* initial cost if there is none
SetSummaryFinalCost(s) ==
  LET costs == { s.initial_cost }
                 \cup { s.iterations[k] : k \in 1 .. Len(s.iterations) }
  IN  [s EXCEPT !.final_cost = CHOOSE c \in costs : \A d \in costs : c <= d]

\* bool Solver::Summary::IsSolutionUsable()
IsSolutionUsable(s) ==
  s.termination_type \in {"CONVERGENCE", "NO_CONVERGENCE", "USER_SUCCESS"}

SolveInit ==
  /\ MinimizerIdle
  /\ EvaluatorIdle
  /\ ThreadPoolIdle
  /\ ParallelForIdle
  /\ MatrixIdle
  /\ solver_options \in ChangedOptions(MaxChangedOptions)
  /\ user_state = 0
  /\ summary \in StaleSummaries
  /\ solve = [NotInSolve EXCEPT !.pc = "Solve", !.given_summary = summary]

\* the summary Solve holds once options.IsValid(&summary->message) has
\* returned
SummaryAfterIsValid_NotReset(s, error) ==
  IF error = "" THEN s ELSE [s EXCEPT !.message = error]

SummaryAfterIsValid(s, error) ==
  IF error = "" THEN NewSummary ELSE [NewSummary EXCEPT !.message = error]

\* Solve resets the summary and validates the options; invalid options
\* end the call
SolveIsValid ==
  /\ solve.pc = "Solve"
  /\ summary' = SummaryAfterIsValid(summary, IsValid(solver_options))
  /\ solve' = [solve EXCEPT
                 !.pc = IF IsValid(solver_options) = ""
                        THEN "Preprocess" ELSE "returned",
                 !.calls = Append(@, "IsValid"),
                 !.given_state = user_state]
  /\ UNCHANGED << not_solve, solver_options, user_state >>

\* preprocessor->Preprocess(modified_options, problem_impl, &pp): it
\* succeeds, leaving a reduced program with or without parameter blocks,
\* or leaves an error
SolvePreprocess ==
  /\ solve.pc = "Preprocess"
  /\ \E status \in BOOLEAN, num_parameter_blocks \in {0, 1} :
       /\ ~status => num_parameter_blocks = 0
       /\ summary' = [summary EXCEPT
                        !.fixed_cost = FixedCost,
                        !.message = IF status THEN @ ELSE "pp.error"]
       /\ solve' = [solve EXCEPT
                      !.pc = IF status THEN "Minimize" ELSE "PostSolve",
                      !.calls = Append(@, "Preprocess"),
                      !.reduced_parameters = user_state,
                      !.status = status,
                      !.num_parameter_blocks = num_parameter_blocks]
  /\ UNCHANGED << not_solve, solver_options, user_state >>

\* Minimize(&pp, summary) when the reduced program has no parameter block
SummaryOfEmptyProgram_NoCosts(s) ==
  [s EXCEPT !.termination_type = "CONVERGENCE",
            !.message = "No non-constant parameter blocks found."]

SummaryOfEmptyProgram(s) ==
  [s EXCEPT !.termination_type = "CONVERGENCE",
            !.message = "No non-constant parameter blocks found.",
            !.initial_cost = s.fixed_cost,
            !.final_cost = s.fixed_cost]

SolveNothingToMinimize ==
  /\ solve.pc = "Minimize"
  /\ solve.num_parameter_blocks = 0
  /\ summary' = SummaryOfEmptyProgram(summary)
  /\ solve' = [solve EXCEPT !.pc = "PostSolve"]
  /\ UNCHANGED << not_solve, solver_options, user_state >>

\* the state vector Minimize hands back to the parameter blocks
StateVectorToParameterBlocks_AsMinimized(s, reduced_parameters, original_reduced_parameters) ==
  reduced_parameters

StateVectorToParameterBlocks(s, reduced_parameters, original_reduced_parameters) ==
  IF IsSolutionUsable(s) THEN reduced_parameters
  ELSE original_reduced_parameters

\* Minimize(&pp, summary): the minimizer works on the reduced parameters;
\* the user's state gets them when the solution is usable, and the
\* original ones otherwise.  A USER_FAILURE can come from the callback of
\* the gradient checker.
SolveMinimize ==
  /\ solve.pc = "Minimize"
  /\ solve.num_parameter_blocks > 0
  /\ \E outcome \in MinimizerOutcomes, reduced_parameters \in ParameterValues,
        costs \in IterationCosts, gradient_error_detected \in BOOLEAN :
       LET original_reduced_parameters == solve.reduced_parameters
           after == [summary EXCEPT
                       !.termination_type = outcome.termination_type,
                       !.message = outcome.message,
                       !.initial_cost = IF costs = << >> THEN @ ELSE costs[1],
                       !.iterations = costs]
       IN  /\ gradient_error_detected =>
                /\ solver_options.check_gradients
                /\ outcome.termination_type = "USER_FAILURE"
           /\ summary' = after
           /\ user_state' =
                StateVectorToParameterBlocks(after, reduced_parameters,
                                             original_reduced_parameters)
           /\ solve' = [solve EXCEPT
                          !.pc = "PostSolve",
                          !.calls = Append(@, "Minimize"),
                          !.reduced_parameters = reduced_parameters,
                          !.original_reduced_parameters =
                             original_reduced_parameters,
                          !.gradient_error_detected = gradient_error_detected]
  /\ UNCHANGED << not_solve, solver_options >>

\* PostSolveSummarize, the verdict of the gradient checker and the times;
\* Solve returns
SolvePostSolve ==
  /\ solve.pc = "PostSolve"
  /\ summary' =
       LET s == SetSummaryFinalCost(summary)
       IN  IF solve.gradient_error_detected
           THEN [s EXCEPT !.termination_type = "FAILURE",
                          !.message = "gradient_checking_callback.error_log()"]
           ELSE s
  /\ solve' = [solve EXCEPT !.pc = "returned",
                            !.calls = Append(@, "PostSolveSummarize")]
  /\ UNCHANGED << not_solve, solver_options, user_state >>

SolveNext ==
  \/ SolveIsValid
  \/ SolvePreprocess
  \/ SolveNothingToMinimize
  \/ SolveMinimize
  \/ SolvePostSolve

SolveSpec == SolveInit /\ [][SolveNext]_vars

\* ---------------------------------------- DynamicCompressedRowSparseMatrix
\* the columns of the matrix and the values that are inserted
MatrixCols == {0, 1}

MatrixValues == {1, 2}

\* std::vector::resize(n): the elements that fit are kept, new ones are zero
Resize(v, n) == [k \in 1 .. n |-> IF k <= Len(v) THEN v[k] ELSE 0]

\* std::copy(src.begin(), src.end(), dst + l)
Copy(src, dst, l) == [k \in 1 .. Len(dst) |-> IF l < k /\ k <= l + Len(src) THEN src[k - l] ELSE dst[k]]

\* CompressedRowSparseMatrix::num_rows()
num_rows_ == Len(rows_) - 1

\* DynamicCompressedRowSparseMatrix(num_rows, num_cols, max_num_nonzeros):
\* the arrays of the base class and one empty vector for every row
MatrixInit ==
  /\ MinimizerIdle
  /\ EvaluatorIdle
  /\ ThreadPoolIdle
  /\ ParallelForIdle
  /\ SolveIdle
  /\ \E n \in 0 .. MaxMatrixRows, max_num_nonzeros \in {0, 1} :
       /\ dynamic_cols_ = [r \in 1 .. n |-> << >>]
       /\ dynamic_values_ = [r \in 1 .. n |-> << >>]
       /\ rows_ = [k \in 1 .. n + 1 |-> 0]
       /\ cols_ = [k \in 1 .. max_num_nonzeros |-> 0]
       /\ values_ = [k \in 1 .. max_num_nonzeros |-> 0]
       /\ matrix = [ calls |-> 0, last |-> "constructed", args |-> << >>,
                     held |-> [r \in 1 .. n |-> << >>], cleared |-> FALSE ]

\* InsertEntry(row, col, value): the entry is pushed on the vectors of its row
InsertEntry ==
  /\ matrix.calls < MaxMatrixCalls
  /\ \E row \in 0 .. num_rows_ - 1, col \in MatrixCols, value \in MatrixValues :
       /\ dynamic_cols_' = [dynamic_cols_ EXCEPT ![row + 1] = Append(@, col)]
       /\ dynamic_values_' =
            [dynamic_values_ EXCEPT ![row + 1] = Append(@, value)]
       /\ matrix' = [ calls |-> matrix.calls + 1, last |-> "InsertEntry",
                      args |-> << >>,
                      held |-> [matrix.held EXCEPT
                                  ![row + 1] = Append(@, << col, value >>)],
                      cleared |-> matrix.cleared ]
  /\ UNCHANGED << not_matrix, rows_, cols_, values_ >>

\* variant: the loop runs once more
ClearedRows_OneMore(row_start, n) == { row_start + r : r \in 0 .. n }

\* for (int r = 0; r < num_rows; ++r): the rows row_start + r
ClearedRows(row_start, n) == { row_start + r : r \in 0 .. n - 1 }

\* ClearRows(row_start, num_rows): the vectors of the rows are resized to 0
ClearRows ==
  /\ matrix.calls < MaxMatrixCalls
  /\ \E row_start \in 0 .. num_rows_, n \in 0 .. num_rows_ :
       /\ row_start + n <= num_rows_
       /\ dynamic_cols_' =
            [r \in 1 .. Len(dynamic_cols_) |->
               IF r - 1 \in ClearedRows(row_start, n)
               THEN Resize(dynamic_cols_[r], 0) ELSE dynamic_cols_[r]]
       /\ dynamic_values_' =
            [r \in 1 .. Len(dynamic_values_) |->
               IF r - 1 \in ClearedRows(row_start, n)
               THEN Resize(dynamic_values_[r], 0) ELSE dynamic_values_[r]]
       /\ matrix' = [ calls |-> matrix.calls + 1, last |-> "ClearRows",
                      args |-> << row_start, n >>,
                      held |-> [r \in 1 .. Len(matrix.held) |->
                                  IF row_start < r /\ r <= row_start + n
                                  THEN << >> ELSE matrix.held[r]],
                      cleared |->
                        \/ matrix.cleared
                        \/ \E r \in 1 .. Len(matrix.held) :
                             /\ row_start < r /\ r <= row_start + n
                             /\ matrix.held[r] # << >> ] 
  /\ UNCHANGED << not_matrix, rows_, cols_, values_ >>

\* the number of non-zeros counted in the rows from row i on
RECURSIVE NumNonZeros(_)
NumNonZeros(i) ==
  IF i >= Len(dynamic_cols_) THEN 0
  ELSE Len(dynamic_cols_[i + 1]) + NumNonZeros(i + 1)

\* variant: the offset is not advanced
NextOffset_NotAdvanced(l, row_cols) == l

\* l += dynamic_cols_[i].size()
NextOffset(l, row_cols) == l + Len(row_cols)

\* the loop of Finalize from row i on, with the offset l: the arrays m
\* after it
RECURSIVE Flatten(_, _, _)
Flatten(i, l, m) ==
  IF i >= num_rows_ THEN [m EXCEPT !.rows[num_rows_ + 1] = l]
  ELSE Flatten(i + 1, NextOffset(l, dynamic_cols_[i + 1]),
               [ rows   |-> [m.rows EXCEPT ![i + 1] = l],
                 cols   |-> Copy(dynamic_cols_[i + 1], m.cols, l),
                 values |-> Copy(dynamic_values_[i + 1], m.values, l) ])

\* Finalize(num_additional)
Finalize ==
  /\ matrix.calls < MaxMatrixCalls
  /\ \E num_additional \in {0, 1} :
       LET num_jacobian_nonzeros == NumNonZeros(0)
           m == Flatten(0, 0,
                  [ rows   |-> rows_,
                    cols   |-> Resize(cols_,
                                      num_jacobian_nonzeros + num_additional),
                    values |-> Resize(values_,
                                      num_jacobian_nonzeros + num_additional) ])
       IN
       /\ rows_' = m.rows
       /\ cols_' = m.cols
       /\ values_' = m.values
  /\ matrix' = [matrix EXCEPT !.calls = @ + 1, !.last = "Finalize",
                              !.args = << >>]
  /\ UNCHANGED << not_matrix, dynamic_cols_, dynamic_values_ >>

MatrixNext ==
  \/ InsertEntry
  \/ ClearRows
  \/ Finalize

MatrixSpec == MatrixInit /\ [][MatrixNext]_vars

\* ======================================================================
\* Properties
\* ======================================================================

\* C1 (as stated): once IterationZero has succeeded, and also when
\* Minimize returns, the caller's parameter buffer holds the accepted
\* iterate of lowest evaluated cost: no accepted iterate, the one whose
\* re-evaluation failed included, has an evaluated cost below the cost of
\* the point in the buffer.
C1_BufferHoldsBestAcceptedIterate ==
  history.accepted # {} =>
    /\ << parameters, minimum_cost >> \in history.accepted
    /\ \A a \in history.accepted : minimum_cost <= a[2]
    /\ ( history.iteration.outcome = "accepted_failure"
         /\ new_cost < DBL_MAX ) => minimum_cost <= new_cost

\* C1 (amended): once IterationZero has succeeded, the caller's parameter
\* buffer holds an accepted iterate whose cost is the lowest among the
\* accepted iterates whose evaluation at the new point succeeded (the
\* initial point included), minimum_cost is that cost, and no step ever
\* increases minimum_cost; an accepted iterate whose evaluation fails is
\* not copied out.
C1_BufferHoldsBestEvaluatedIterate ==
  [][ /\ history'.accepted # {} =>
           /\ << parameters', minimum_cost' >> \in history'.accepted
           /\ \A a \in history'.accepted : minimum_cost' <= a[2]
           /\ CostAt(parameters') = minimum_cost'
      /\ history.accepted # {} => minimum_cost' <= minimum_cost
      /\ history'.iteration.outcome = "accepted_failure" =>
           parameters' = parameters ]_vars

\* an accepted step led to a cost above the minimum and the buffer was
\* not overwritten
C1_Witness ==
  /\ pc = "Finalize"
  /\ history.iteration.outcome = "accepted"
  /\ cost_ > minimum_cost
  /\ x_ # parameters

\* C2: when every loop iteration so far had an invalid step and Minimize
\* returns with FAILURE for too many invalid steps, the number of invalid
\* loop iterations is exactly max_num_consecutive_invalid_steps + 1.
C2_FailureAfterLimitPlusOneInvalidSteps ==
  ( /\ pc = "done"
    /\ history.stopped_in = "body"
    /\ history.iteration.outcome = "invalid"
    /\ history.invalid_iterations = iteration_summary_.iteration )
  => history.invalid_iterations =
       options_.max_num_consecutive_invalid_steps + 1

\* C3: an iteration whose trial point failed in Plus or Evaluate and that
\* reached the acceptance decision rejects the step: x_ is not advanced
\* and the strategy receives StepRejected.
C3_FailedTrialIsRejected ==
  ( /\ history.iteration.outcome \in {"rejected", "accepted", "accepted_failure"}
    /\ ~(history.iteration.plus_ok /\ history.iteration.evaluate_ok) )
  => /\ history.iteration.outcome = "rejected"
     /\ x_ = history.iteration.x
     /\ strategy_.calls = << "ComputeStep", "StepRejected" >>

\* C4 (as stated): if IterationZero succeeded and every trial point failed,
\* Minimize returns only with NO_CONVERGENCE at the iteration cap.
C4_FailingTrialsEndAtIterationCap ==
  ( /\ pc = "done"
    /\ history.accepted # {}
    /\ history.trials_ok = 0
    /\ history.trials_failed > 0 )
  => /\ solver_summary_.termination_type = "NO_CONVERGENCE"
     /\ solver_summary_.message = "Maximum number of iterations reached."

\* C4 (amended): if IterationZero succeeded and every trial point so far
\* failed, no step has been accepted, x_ and the caller's buffer are still
\* the initial point, no appended cost is below initial_cost, Minimize has
\* not returned with an evaluation FAILURE (a FAILURE comes only from the
\* strategy: invalid steps or a fatal linear solver error), and at a
\* boundary where the iteration cap is reached and neither a callback nor
\* the time budget stops the solve the result is NO_CONVERGENCE.
C4_FailingTrialsAreNeverAccepted ==
  ( history.accepted # {} /\ history.trials_ok = 0 )
  => /\ solver_summary_.num_successful_steps = 0
     /\ history.accepted = { << x_, cost_ >> }
     /\ parameters = x_
     /\ solver_summary_.num_iterations > 0 =>
          solver_summary_.iterations_back.cost >= solver_summary_.initial_cost
     /\ (pc = "done" /\ solver_summary_.termination_type = "FAILURE") =>
          history.iteration.outcome \in {"invalid", "fatal"}
     /\ ( /\ pc = "done" /\ history.stopped_in = "boundary"
          /\ ~history.boundary.callback /\ ~history.boundary.time
          /\ history.boundary.iterations )
        => /\ solver_summary_.termination_type = "NO_CONVERGENCE"
           /\ solver_summary_.message = "Maximum number of iterations reached."

\* every loop iteration had a failing trial and the solve ended at the cap
C4_Witness ==
  /\ pc = "done"
  /\ history.trials_ok = 0
  /\ history.trials_failed >= 2
  /\ solver_summary_.message = "Maximum number of iterations reached."

\* C5: in an iteration that reached the acceptance decision the step is
\* successful exactly when the inner iterations of this iteration brought
\* the cost below the current cost or the relative decrease exceeds
\* min_relative_decrease.
C5_SuccessIffInnerImprovedOrSufficientDecrease ==
  history.iteration.outcome \in {"rejected", "accepted", "accepted_failure"}
  => ( history.iteration.outcome # "rejected"
       <=> \/ /\ history.iteration.inner_ran
              /\ history.iteration.inner_ok
              /\ history.iteration.inner_cost < history.iteration.cost
           \/ QuotientGT(iteration_summary_.relative_decrease[1],
                         iteration_summary_.relative_decrease[2],
                         options_.min_relative_decrease) )

\* C6 (as stated): after inner iterations the trial cost and point are
\* those of the inner iterations only if their cost is lower than the
\* trust-region trial cost, and the original ones otherwise.
C6_InnerResultReplacesOnlyIfLower ==
  ( pc = "StepDecision" /\ history.iteration.inner_ran )
  => LET it == history.iteration
         lower == it.inner_ok /\ it.inner_cost < it.trial_cost
     IN  /\ new_cost = IF lower THEN it.inner_cost ELSE it.trial_cost
         /\ x_plus_delta_ = IF lower THEN it.inner_x ELSE it.trial_x

\* C6 (amended): after inner iterations the trial cost and point are those
\* of the inner iterations whenever the inner-iteration point evaluated
\* successfully, whether its cost is lower or not, and the original ones
\* only if that evaluation failed.
C6_InnerResultReplacesWhenEvaluated ==
  ( pc = "StepDecision" /\ history.iteration.inner_ran )
  => LET it == history.iteration
     IN  /\ new_cost = IF it.inner_ok THEN it.inner_cost ELSE it.trial_cost
         /\ x_plus_delta_ = IF it.inner_ok THEN it.inner_x ELSE it.trial_x

\* the inner iterations returned a point of higher cost and it is used
C6_Witness ==
  /\ pc = "StepDecision"
  /\ history.iteration.inner_ran
  /\ history.iteration.inner_ok
  /\ history.iteration.inner_cost > history.iteration.trial_cost
  /\ new_cost = history.iteration.inner_cost

\* C7: once Init has run, a step taken while inner iterations are disabled
\* leaves them disabled and does not invoke the inner minimizer.
C7_InnerIterationsStayDisabled ==
  [][ (pc # "Minimize" /\ ~inner_iterations_are_enabled_)
      => /\ ~inner_iterations_are_enabled_'
         /\ solver_summary_'.num_inner_iteration_steps =
              solver_summary_.num_inner_iteration_steps ]_vars

\* inner iterations were configured, ran, were disabled, and a later
\* iteration evaluated a trial point of finite cost
C7_Witness ==
  /\ options_.inner_iteration_minimizer
  /\ ~inner_iterations_are_enabled_
  /\ solver_summary_.num_inner_iteration_steps > 0
  /\ pc = "StepDecision"
  /\ ~history.iteration.inner_ran
  /\ new_cost < DBL_MAX

\* C8: when the boundary stops the solve, the first condition that holds
\* in the order callback, time budget, iteration cap, gradient tolerance,
\* minimum radius decides the termination type and message; the loop
\* continues only if none holds.
C8_StopChecksInOrder ==
  LET b  == history.boundary
      is == solver_summary_.iterations_back
      ss == solver_summary_
      gradient == /\ is.step_is_successful \/ is.iteration = 0
                  /\ b.gradient
  IN  /\ (pc = "done" /\ history.stopped_in = "boundary") =>
           IF b.callback
             THEN ss.termination_type \in {"USER_FAILURE", "USER_SUCCESS"}
           ELSE IF b.time
             THEN /\ ss.termination_type = "NO_CONVERGENCE"
                  /\ ss.message = "Maximum solver time reached."
           ELSE IF b.iterations
             THEN /\ ss.termination_type = "NO_CONVERGENCE"
                  /\ ss.message = "Maximum number of iterations reached."
           ELSE IF gradient
             THEN /\ ss.termination_type = "CONVERGENCE"
                  /\ ss.message = "Gradient tolerance reached."
           ELSE /\ b.radius
                /\ ss.termination_type = "CONVERGENCE"
                /\ ss.message =
                     "Termination. Minimum trust region radius reached."
      /\ pc = "ComputeTrustRegionStep" =>
           ~(b.callback \/ b.time \/ b.iterations \/ gradient \/ b.radius)

\* the iteration cap and the gradient tolerance hold at the same boundary
\* and the result is NO_CONVERGENCE
C8_Witness ==
  /\ pc = "done" /\ history.stopped_in = "boundary"
  /\ ~history.boundary.callback /\ ~history.boundary.time
  /\ history.boundary.iterations
  /\ history.boundary.gradient
  /\ solver_summary_.iterations_back.iteration = 0
  /\ solver_summary_.termination_type = "NO_CONVERGENCE"

\* C9: Minimize returns with the gradient-tolerance message only at the
\* boundary of iteration 0 or of an iteration whose step was accepted.
C9_GradientCheckOnlyAfterSuccess ==
  ( pc = "done" /\ solver_summary_.message = "Gradient tolerance reached." )
  => \/ solver_summary_.iterations_back.iteration = 0
     \/ history.iteration.outcome = "accepted"

\* after a rejected or invalid step the recorded gradient max norm is
\* within the tolerance and the loop continues
C9_Witness ==
  /\ pc = "ComputeTrustRegionStep"
  /\ history.iteration.outcome \in {"rejected", "invalid"}
  /\ solver_summary_.iterations_back.gradient_max_norm <=
       options_.gradient_tolerance

\* C10: for a valid candidate (x_plus_delta_, new_cost) computed from the
\* iterate (x, cost), Minimize returns with CONVERGENCE on the parameter
\* tolerance iff |x - x_plus_delta| <= parameter_tolerance * (|x| +
\* parameter_tolerance), and otherwise on the function tolerance iff
\* |cost - new_cost| <= function_tolerance * cost; only if neither holds
\* is the step accepted or rejected.
C10_ToleranceChecksOnCandidate ==
  history.iteration.outcome \in
    {"parameter_tolerance", "function_tolerance",
     "rejected", "accepted", "accepted_failure"}
  => LET it == history.iteration
         parameter ==
           Abs(it.x - x_plus_delta_) <=
             options_.parameter_tolerance *
               (Abs(it.x) + options_.parameter_tolerance)
         function ==
           Abs(it.cost - new_cost) <= options_.function_tolerance * it.cost
     IN  /\ it.outcome = "parameter_tolerance" <=> parameter
         /\ it.outcome = "function_tolerance" <=> (~parameter /\ function)
         /\ it.outcome \in {"parameter_tolerance", "function_tolerance"} =>
              /\ pc = "done"
              /\ solver_summary_.termination_type = "CONVERGENCE"
              /\ solver_summary_.message =
                   IF parameter THEN "Parameter tolerance reached."
                                ELSE "Function tolerance reached."

\* a tolerance check ended the solve on an evaluated candidate that the
\* acceptance test would have rejected
C10_Witness ==
  /\ pc = "done"
  /\ history.iteration.outcome \in
       {"parameter_tolerance", "function_tolerance"}
  /\ history.iteration.plus_ok
  /\ history.iteration.evaluate_ok
  /\ ~IsStepSuccessful

\* the messages EvaluateGradientAndJacobian leaves when it fails
EvaluationFailureMessages ==
  { "Residual and Jacobian evaluation failed.",
    "projected_gradient_step = Plus(x, -gradient) failed." }

\* C11: when the evaluation of cost, gradient and Jacobian (Evaluate or the
\* Plus of the projected gradient step) fails at the initial point or at
\* the point of an accepted step, Minimize has returned with FAILURE and
\* the message of the failure, and nothing followed the failure: at the
\* initial point no record was appended and the strategy was never called,
\* after an accepted step the record of that iteration was not appended
\* and StepAccepted is the last call the strategy received.
C11_EvaluationFailureEndsTheSolve ==
  /\ solver_summary_.message \in EvaluationFailureMessages =>
       /\ pc = "done"
       /\ solver_summary_.termination_type = "FAILURE"
       /\ history.stopped_in \in {"IterationZero", "body"}
       /\ history.stopped_in = "IterationZero" =>
            /\ solver_summary_.iterations = << >>
            /\ strategy_.calls = << >>
       /\ history.stopped_in = "body" =>
            /\ history.iteration.outcome = "accepted_failure"
            /\ Len(solver_summary_.iterations) = iteration_summary_.iteration
            /\ solver_summary_.iterations_back.iteration =
                 iteration_summary_.iteration - 1
            /\ strategy_.calls = << "ComputeStep", "StepAccepted" >>
  /\ history.iteration.outcome = "accepted_failure" =>
       solver_summary_.message \in EvaluationFailureMessages

\* the projected gradient step failed at the point of an accepted step
C11_Witness ==
  /\ pc = "done"
  /\ history.iteration.outcome = "accepted_failure"
  /\ solver_summary_.termination_type = "FAILURE"
  /\ solver_summary_.message =
       "projected_gradient_step = Plus(x, -gradient) failed."

\* C12: a strategy result LINEAR_SOLVER_FATAL_ERROR ends the solve at once
\* with FAILURE: nothing but ComputeStep was called, x and the caller's
\* buffer are untouched and the record of the iteration is not appended.
\* A result LINEAR_SOLVER_FAILURE makes the step invalid and is handled as
\* an invalid step: the solve ends in that iteration only through the
\* limit on consecutive invalid steps, otherwise the strategy receives
\* StepIsInvalid and the loop goes on; the number of consecutive invalid
\* steps that were recovered from never exceeds
\* max_num_consecutive_invalid_steps.
C12_FatalErrorEndsFailureIsInvalidStep ==
  LET it == history.iteration
  IN  /\ it.linear_solver = "LINEAR_SOLVER_FATAL_ERROR" =>
           /\ pc = "done"
           /\ solver_summary_.termination_type = "FAILURE"
           /\ solver_summary_.message =
                "Linear solver failed due to unrecoverable non-numeric causes."
           /\ strategy_.calls = << "ComputeStep" >>
           /\ x_ = it.x /\ parameters = it.parameters
           /\ Len(solver_summary_.iterations) = iteration_summary_.iteration
      /\ it.linear_solver = "LINEAR_SOLVER_FAILURE" =>
           /\ ~iteration_summary_.step_is_valid
           /\ it.outcome \in {"none", "invalid"}
           /\ it.outcome = "none" => pc = "HandleInvalidStep"
           /\ (pc = "done" /\ history.stopped_in = "body") =>
                /\ it.outcome = "invalid"
                /\ solver_summary_.termination_type = "FAILURE"
                /\ solver_summary_.message = "Number of successive invalid steps more than Solver::Options::max_num_consecutive_invalid_steps"
           /\ (it.outcome = "invalid" /\ history.stopped_in # "body") =>
                /\ strategy_.calls = << "ComputeStep", "StepIsInvalid" >>
                /\ num_consecutive_invalid_steps_ <=
                     options_.max_num_consecutive_invalid_steps

\* the loop went on after a recoverable failure of the linear solver
C12_Witness ==
  /\ pc = "Finalize"
  /\ history.iteration.linear_solver = "LINEAR_SOLVER_FAILURE"
  /\ history.iteration.outcome = "invalid"
  /\ num_consecutive_invalid_steps_ = 1

\* C13: after the strategy has computed a step s, the step is valid
\* exactly when -(J s)(r + J s / 2) > 0, and only a valid step goes on to
\* the trial evaluation; a zero step has a model cost change of exactly 0,
\* is invalid and is handled by HandleInvalidStep; an iteration handled as
\* invalid leaves x where it was.
C13_StepValidIffModelCostDecreases ==
  LET it == history.iteration
      Js == RightMultiply(jacobian_, trust_region_step_)
      twice_the_change == - (Js * (2 * residuals_ + Js))
  IN  /\ ( /\ it.linear_solver = "LINEAR_SOLVER_SUCCESS"
           /\ pc \in {"TrialStep", "HandleInvalidStep"} ) =>
             /\ 2 * model_cost_change_ = twice_the_change
             /\ iteration_summary_.step_is_valid <=> twice_the_change > 0
             /\ pc = "TrialStep" <=> iteration_summary_.step_is_valid
             /\ trust_region_step_ = 0 =>
                  /\ model_cost_change_ = 0
                  /\ pc = "HandleInvalidStep"
      /\ it.outcome \in {"trial", "rejected", "accepted", "accepted_failure",
                         "parameter_tolerance", "function_tolerance"} =>
           iteration_summary_.step_is_valid
      /\ it.outcome = "invalid" =>
           /\ ~iteration_summary_.step_is_valid
           /\ x_ = it.x /\ cost_ = it.cost

\* the strategy returned a zero step away from the minimum
C13_Witness ==
  /\ pc = "HandleInvalidStep"
  /\ history.iteration.linear_solver = "LINEAR_SOLVER_SUCCESS"
  /\ trust_region_step_ = 0
  /\ residuals_ # 0
  /\ model_cost_change_ = 0

\* C14: an invalid step that is tolerated leaves x, the cost and the
\* caller's buffer unchanged, adds one to num_unsuccessful_steps and none
\* to num_successful_steps, sends StepIsInvalid to the strategy, appends
\* nothing itself, and leaves an iteration summary of the same iteration
\* that is neither valid nor successful, whose cost is the current cost
\* (cost_ plus the fixed cost, as in every record), whose cost_change,
\* step_norm and relative_decrease are 0 and whose gradient norms are
\* those of the last appended record.
C14_InvalidStepIsUnsuccessfulIteration ==
  [][ (pc = "HandleInvalidStep" /\ pc' = "Finalize") =>
        LET is   == iteration_summary_'
            back == solver_summary_.iterations_back
        IN  /\ x_' = x_ /\ cost_' = cost_ /\ parameters' = parameters
            /\ solver_summary_'.num_unsuccessful_steps =
                 solver_summary_.num_unsuccessful_steps + 1
            /\ solver_summary_'.num_successful_steps =
                 solver_summary_.num_successful_steps
            /\ solver_summary_'.iterations = solver_summary_.iterations
            /\ strategy_'.calls = Append(strategy_.calls, "StepIsInvalid")
            /\ is.iteration = iteration_summary_.iteration
            /\ is.iteration = back.iteration + 1
            /\ ~is.step_is_valid /\ ~is.step_is_successful
            /\ is.cost = cost_ + solver_summary_.fixed_cost
            /\ is.cost_change = 0
            /\ is.step_norm = 0
            /\ is.relative_decrease = << 0, 1 >>
            /\ is.gradient_max_norm = back.gradient_max_norm
            /\ is.gradient_norm = back.gradient_norm ]_vars

\* an invalid step was tolerated at a point of non-zero gradient, in a
\* solve with a fixed cost
C14_Witness ==
  /\ pc = "Finalize"
  /\ history.iteration.outcome = "invalid"
  /\ iteration_summary_.gradient_max_norm > 0
  /\ solver_summary_.fixed_cost > 0
  /\ iteration_summary_.cost = cost_ + solver_summary_.fixed_cost

\* the number of records at the end of the sequence that belong to an
\* iteration of the loop (iteration > 0) whose step was invalid
RECURSIVE TrailingInvalid(_)
TrailingInvalid(records) ==
  IF records = << >> THEN 0
  ELSE LET last == records[Len(records)]
       IN  IF last.iteration > 0 /\ ~last.step_is_valid
           THEN 1 + TrailingInvalid(SubSeq(records, 1, Len(records) - 1))
           ELSE 0

\* C15: the counter of invalid steps is the length of the uninterrupted
\* run of invalid iterations that ends at the current iteration: between
\* iterations it is the number of invalid-step records at the end of the
\* appended sequence, a valid step (whether it is accepted or rejected
\* later) sets it to zero, and when Minimize returns with FAILURE for too
\* many invalid steps the current iteration and all the counted ones
\* before it were invalid, with no valid step in between.
C15_CounterCountsUninterruptedRun ==
  LET run == TrailingInvalid(solver_summary_.iterations)
      invalid_steps_message == "Number of successive invalid steps more than Solver::Options::max_num_consecutive_invalid_steps"
  IN  /\ pc \in {"ComputeTrustRegionStep", "HandleInvalidStep", "TrialStep"} =>
           num_consecutive_invalid_steps_ = run
      /\ (pc = "done" /\ history.stopped_in = "boundary") =>
           num_consecutive_invalid_steps_ = run
      /\ pc \in {"DoInnerIterations", "StepDecision"} =>
           num_consecutive_invalid_steps_ = 0
      /\ (pc = "Finalize" /\ iteration_summary_.iteration > 0) =>
           num_consecutive_invalid_steps_ =
             IF iteration_summary_.step_is_valid THEN 0 ELSE run + 1
      /\ (pc = "done" /\ solver_summary_.message = invalid_steps_message) =>
           /\ ~iteration_summary_.step_is_valid
           /\ history.iteration.outcome = "invalid"
           /\ num_consecutive_invalid_steps_ = run + 1

\* an invalid step was followed by a valid one and the counter is zero
C15_Witness ==
  /\ pc = "Finalize"
  /\ iteration_summary_.iteration = 2
  /\ iteration_summary_.step_is_valid
  /\ ~solver_summary_.iterations_back.step_is_valid
  /\ solver_summary_.iterations_back.iteration = 1
  /\ num_consecutive_invalid_steps_ = 0

\* C16: the acceptance decision has one of two effects. A rejected step
\* sends StepRejected to the strategy, counts as unsuccessful and leaves
\* x, the cost, the residuals, the gradient and the Jacobian unchanged. An
\* accepted step sends StepAccepted to the strategy, counts as successful
\* and sets x to x_plus_delta; the cost, the residuals, the gradient and
\* the (scaled) Jacobian are evaluated at the new x before the loop
\* goes on, and if that evaluation fails the loop does not go on.
C16_RejectedKeepsAcceptedAdvances ==
  [][ pc = "StepDecision" =>
        LET evaluated == [num |-> JacobianAt(x_'), den |-> 1]
        IN
        /\ history'.iteration.outcome = "rejected" =>
             /\ pc' = "Finalize"
             /\ ~iteration_summary_'.step_is_successful
             /\ strategy_'.calls = Append(strategy_.calls, "StepRejected")
             /\ solver_summary_'.num_unsuccessful_steps =
                  solver_summary_.num_unsuccessful_steps + 1
             /\ solver_summary_'.num_successful_steps =
                  solver_summary_.num_successful_steps
             /\ x_' = x_ /\ cost_' = cost_ /\ residuals_' = residuals_
             /\ gradient_' = gradient_ /\ jacobian_' = jacobian_
             /\ parameters' = parameters
        /\ history'.iteration.outcome \in {"accepted", "accepted_failure"} =>
             /\ strategy_'.calls = Append(strategy_.calls, "StepAccepted")
             /\ solver_summary_'.num_successful_steps =
                  solver_summary_.num_successful_steps + 1
             /\ solver_summary_'.num_unsuccessful_steps =
                  solver_summary_.num_unsuccessful_steps
             /\ x_' = x_plus_delta_
             /\ x_norm_' = Abs(x_plus_delta_)
        /\ history'.iteration.outcome = "accepted" =>
             /\ pc' = "Finalize"
             /\ iteration_summary_'.step_is_successful
             /\ cost_' = CostAt(x_')
             /\ residuals_' = ResidualAt(x_')
             /\ gradient_' = GradientAt(x_')
             /\ jacobian_' = IF options_.jacobi_scaling
                             THEN ScaleColumns(evaluated, scale_)
                             ELSE evaluated
             /\ iteration_summary_'.cost =
                  CostAt(x_') + solver_summary_.fixed_cost
        /\ history'.iteration.outcome = "accepted_failure" => pc' = "done"
        /\ pc' = "Finalize" =>
             history'.iteration.outcome \in {"rejected", "accepted"} ]_vars

\* a step to another point was accepted and evaluated there
C16_Witness ==
  /\ pc = "Finalize"
  /\ history.iteration.outcome = "accepted"
  /\ x_ # history.iteration.x
  /\ cost_ # history.iteration.cost
  /\ strategy_.calls = << "ComputeStep", "StepAccepted" >>

\* C17 (as stated): when Minimize has returned after a successful
\* IterationZero, every iteration that was started, the one in which the
\* solve terminated included, has exactly one record: the sequence holds
\* the records 0 .. k, where k is the iteration the solve ended in.
C17_OneRecordPerStartedIteration ==
  (pc = "done" /\ history.stopped_in # "IterationZero") =>
    /\ Len(solver_summary_.iterations) = iteration_summary_.iteration + 1
    /\ \A i \in 1 .. Len(solver_summary_.iterations) :
         solver_summary_.iterations[i].iteration = i - 1

\* C17 (amended): the sequence of records changes only by the append of
\* one record at an end-of-iteration check, the records appended before
\* stay as they are, and the indices are 0, 1, 2, ... without gaps; an
\* iteration has its record once it has reached the end-of-iteration
\* check (also when that check ends the solve), exactly one, equal to the
\* iteration summary; an iteration in which Minimize returns from inside
\* the loop body has no record.
C17_OneRecordPerFinalizedIteration ==
  [][ LET before == solver_summary_.iterations
          after  == solver_summary_'.iterations
          finalized == \/ pc' = "ComputeTrustRegionStep"
                       \/ pc' = "done" /\ history'.stopped_in = "boundary"
      IN  /\ \/ after = before
             \/ /\ Len(after) = Len(before) + 1
                /\ SubSeq(after, 1, Len(before)) = before
          /\ after # before <=> pc = "Finalize"
          /\ \A i \in 1 .. Len(after) : after[i].iteration = i - 1
          /\ Len(after) = solver_summary_'.num_iterations
          /\ Len(after) =
               iteration_summary_'.iteration + (IF finalized THEN 1 ELSE 0)
          /\ finalized =>
               /\ after[Len(after)] = Appended(iteration_summary_')
               /\ solver_summary_'.iterations_back = iteration_summary_'
          /\ (pc' = "done" /\ history'.stopped_in = "body") =>
               /\ after = before
               /\ Len(after) = iteration_summary_'.iteration ]_vars

\* Minimize returned from the body of iteration 2: the records of the
\* iterations 0 and 1 are all there is
C17_Witness ==
  /\ pc = "done"
  /\ history.stopped_in = "body"
  /\ history.iteration.outcome \in {"parameter_tolerance", "function_tolerance"}
  /\ iteration_summary_.iteration = 2
  /\ Len(solver_summary_.iterations) = 2
  /\ solver_summary_.iterations[2].step_is_successful

\* the termination kind and message of every return of Minimize, by the
\* place of the return
ReturnsOfIterationZero ==
  { << "FAILURE", "Unable to project initial point onto the feasible set." >>,
    << "FAILURE", "Residual and Jacobian evaluation failed." >>,
    << "FAILURE", "projected_gradient_step = Plus(x, -gradient) failed." >> }

ReturnsOfTheBoundary ==
  { << "USER_FAILURE", "User callback returned SOLVER_ABORT." >>,
    << "USER_SUCCESS",
       "User callback returned SOLVER_TERMINATE_SUCCESSFULLY." >>,
    << "NO_CONVERGENCE", "Maximum solver time reached." >>,
    << "NO_CONVERGENCE", "Maximum number of iterations reached." >>,
    << "CONVERGENCE", "Gradient tolerance reached." >>,
    << "CONVERGENCE", "Termination. Minimum trust region radius reached." >> }

ReturnsOfTheBody(outcome) ==
  IF outcome = "fatal"
  THEN { << "FAILURE", "Linear solver failed due to unrecoverable non-numeric causes." >> }
  ELSE IF outcome = "invalid"
  THEN { << "FAILURE", "Number of successive invalid steps more than Solver::Options::max_num_consecutive_invalid_steps" >> }
  ELSE IF outcome = "parameter_tolerance"
  THEN { << "CONVERGENCE", "Parameter tolerance reached." >> }
  ELSE IF outcome = "function_tolerance"
  THEN { << "CONVERGENCE", "Function tolerance reached." >> }
  ELSE IF outcome = "accepted_failure"
  THEN { << "FAILURE", "Residual and Jacobian evaluation failed." >>,
         << "FAILURE", "projected_gradient_step = Plus(x, -gradient) failed." >> }
  ELSE {}

\* C18: whenever Minimize returns, the summary has a termination kind
\* among CONVERGENCE, NO_CONVERGENCE, FAILURE and the two kinds a callback
\* can ask for, and the non-empty message that belongs to the place of the
\* return; Minimize starts once (it is never re-entered), and after it has
\* returned nothing changes any more: no evaluation, no strategy call, no
\* callback, no write to the summary or to the caller's buffer.
C18_EveryReturnHasKindAndMessage ==
  [][ /\ pc # "done"
      /\ pc' # "Minimize"
      /\ pc = "Minimize" => pc' \in {"Finalize", "done"}
      /\ pc' = "done" =>
           LET ss == solver_summary_'
               result == << ss.termination_type, ss.message >>
           IN  /\ ss.termination_type \in
                    {"CONVERGENCE", "NO_CONVERGENCE", "FAILURE",
                     "USER_SUCCESS", "USER_FAILURE"}
               /\ ss.message # ""
               /\ ss.message # solver_summary_.message
               /\ history'.stopped_in \in {"IterationZero", "boundary", "body"}
               /\ history'.stopped_in = "IterationZero" =>
                    result \in ReturnsOfIterationZero
               /\ history'.stopped_in = "boundary" =>
                    result \in ReturnsOfTheBoundary
               /\ history'.stopped_in = "body" =>
                    result \in ReturnsOfTheBody(history'.iteration.outcome)
    ]_vars

\* a callback ended the solve with success after the first loop iteration
C18_Witness ==
  /\ pc = "done"
  /\ solver_summary_.termination_type = "USER_SUCCESS"
  /\ solver_summary_.message =
       "User callback returned SOLVER_TERMINATE_SUCCESSFULLY."
  /\ Len(solver_summary_.iterations) = 2

\* C19: IterationZero on a constrained problem projects the initial point
\* with Plus(x, 0). If the projection fails, Minimize returns with FAILURE
\* and the projection message, nothing has been evaluated and the caller's
\* buffer is as it was. If IterationZero succeeds, x is the projected
\* point, cost, residuals and gradient are those of that point,
\* initial_cost is cost + fixed_cost and the caller's buffer holds the
\* projected point. On an unconstrained problem x is the initial point as
\* given and the projection failure does not occur.
C19_IterationZeroProjectsInitialPoint ==
  [][ pc = "Minimize" =>
        LET projected == IF options_.is_constrained
                         THEN Clamp(parameters) ELSE parameters
            projection_failed ==
              solver_summary_'.message =
                "Unable to project initial point onto the feasible set."
        IN  /\ projection_failed =>
                 /\ options_.is_constrained
                 /\ pc' = "done"
                 /\ solver_summary_'.termination_type = "FAILURE"
                 /\ cost_' = cost_ /\ residuals_' = residuals_
                 /\ gradient_' = gradient_ /\ jacobian_' = jacobian_
                 /\ parameters' = parameters
                 /\ solver_summary_'.iterations = << >>
            /\ ~projection_failed => x_' = projected
            /\ pc' = "Finalize" =>
                 /\ x_' = projected
                 /\ x_norm_' = Abs(projected)
                 /\ cost_' = CostAt(projected)
                 /\ residuals_' = ResidualAt(projected)
                 /\ gradient_' = GradientAt(projected)
                 /\ iteration_summary_'.iteration = 0
                 /\ iteration_summary_'.cost =
                      CostAt(projected) + solver_summary_.fixed_cost
                 /\ solver_summary_'.initial_cost =
                      CostAt(projected) + solver_summary_.fixed_cost
                 /\ parameters' = projected
                 /\ minimum_cost' = CostAt(projected) ]_vars

\* an initial point outside the box was projected, evaluated and written
\* to the caller's buffer, in a solve with a fixed cost
C19_Witness ==
  /\ pc = "Finalize"
  /\ iteration_summary_.iteration = 0
  /\ options_.is_constrained
  /\ history.initial_x < BoxLow
  /\ x_ = BoxLow
  /\ parameters = BoxLow
  /\ solver_summary_.fixed_cost > 0
  /\ solver_summary_.initial_cost = cost_ + solver_summary_.fixed_cost

C21_CallbackStopsAtTheBoundary ==
  [][ /\ ( pc = "Finalize" /\ history'.boundary.callback ) =>
           /\ pc' = "done"
           /\ history'.stopped_in = "boundary"
           /\ Len(solver_summary_'.iterations) =
                Len(solver_summary_.iterations) + 1
           /\ solver_summary_'.iterations[Len(solver_summary_'.iterations)] =
                Appended(iteration_summary_')
           /\ solver_summary_'.iterations_back = iteration_summary_'
           /\ << solver_summary_'.termination_type,
                 solver_summary_'.message >> \in
                { << "USER_FAILURE", "User callback returned SOLVER_ABORT." >>,
                  << "USER_SUCCESS",
                     "User callback returned SOLVER_TERMINATE_SUCCESSFULLY." >> }
           /\ UNCHANGED << strategy_, x_, cost_, parameters,
                           trust_region_step_, step_evaluator_ >>
      /\ solver_summary_'.termination_type \in {"USER_FAILURE", "USER_SUCCESS"}
           => /\ pc' = "done"
              /\ history'.stopped_in = "boundary"
              /\ history'.boundary.callback
      /\ pc = "done" => UNCHANGED vars
    ]_vars

\* a callback stopped the solve after a finished loop iteration, at a
\* boundary where the solver time and the iteration cap were reached too
C21_Witness ==
  /\ pc = "done"
  /\ history.boundary.callback
  /\ history.boundary.time
  /\ history.boundary.iterations
  /\ iteration_summary_.iteration >= 1
  /\ solver_summary_.termination_type = "USER_SUCCESS"

\* C22: the state of the step evaluator changes on accepted steps only.
\* Once Minimize has constructed the evaluator, every step of the loop
\* that is not the accepted branch of the step decision (the boundary,
\* ComputeTrustRegionStep, an invalid step, the trial with its call of
\* StepQuality, the inner iterations, a return on a tolerance, a rejected
\* step) leaves it as it is.  The accepted branch updates it once with
\* new_cost and model_cost_change_: the monotonic reference cost becomes
\* new_cost; the nonmonotonic current cost becomes new_cost, its minimum
\* cost the smaller of the two, and the accumulated model cost change
\* grows by model_cost_change_ unless the window ends at this step.
C22_EvaluatorChangesOnAcceptedStepsOnly ==
  [][ LET accepted == /\ pc = "StepDecision"
                      /\ history'.iteration.outcome \in
                           {"accepted", "accepted_failure"}
          e  == step_evaluator_
          e2 == step_evaluator_'
      IN
      /\ ( pc # "Minimize" /\ ~accepted ) => e2 = e
      /\ accepted =>
           /\ e2.type = e.type
           /\ solver_summary_'.num_successful_steps =
                solver_summary_.num_successful_steps + 1
           /\ e.type = "Monotonic" => e2.reference_cost = new_cost
           /\ e.type = "TointNonMonotonic" =>
                /\ e2.current_cost = new_cost
                /\ e2.minimum_cost =
                     IF new_cost < e.minimum_cost
                     THEN new_cost ELSE e.minimum_cost
                /\ e2.max_consecutive_nonmonotonic_steps =
                     e.max_consecutive_nonmonotonic_steps
                /\ e2.num_consecutive_nonmonotonic_steps #
                     e2.max_consecutive_nonmonotonic_steps =>
                     /\ e2.reference_cost = e.reference_cost
                     /\ e2.accumulated_reference_model_cost_change =
                          e.accumulated_reference_model_cost_change
                            + model_cost_change_
    ]_vars

\* a nonmonotonic evaluator that has seen an accepted step after a step
\* that was tried and rejected
C22_Witness ==
  /\ pc = "Finalize"
  /\ history.iteration.outcome = "accepted"
  /\ step_evaluator_.type = "TointNonMonotonic"
  /\ step_evaluator_.current_cost = cost_
  /\ step_evaluator_.accumulated_reference_model_cost_change > 0
  /\ solver_summary_.num_unsuccessful_steps >= 1
  /\ history.trials_failed >= 1

C24_MinimizeTerminates ==
  /\ [][ /\ pc' = "ComputeTrustRegionStep" =>
              /\ pc = "Finalize"
              /\ iteration_summary_'.iteration < options_.max_num_iterations
              /\ options_.max_solver_time_in_seconds > 0
         /\ pc = "ComputeTrustRegionStep" =>
              /\ iteration_summary_'.iteration =
                   solver_summary_.iterations_back.iteration + 1
              /\ iteration_summary_'.iteration =
                   Len(solver_summary_.iterations)
              /\ iteration_summary_'.iteration <= options_.max_num_iterations
         /\ ( /\ pc = "Finalize"
              /\ iteration_summary_.iteration >= options_.max_num_iterations
              /\ ~history'.boundary.callback
              /\ ~history'.boundary.time ) =>
                /\ pc' = "done"
                /\ solver_summary_'.termination_type = "NO_CONVERGENCE"
                /\ solver_summary_'.message =
                     "Maximum number of iterations reached."
         /\ ( \/ options_.max_num_iterations = 0
              \/ options_.max_solver_time_in_seconds = 0 ) =>
                /\ strategy_'.calls = << >>
                /\ pc' \in {"Finalize", "done"}
       ]_vars
  /\ <>(pc = "done")

\* the solve ran the largest number of loop iterations and ended at the
\* boundary of the last one on the iteration cap alone
C24_Witness ==
  /\ pc = "done"
  /\ options_.max_num_iterations = MaxNumIterations
  /\ iteration_summary_.iteration = MaxNumIterations
  /\ Len(solver_summary_.iterations) = MaxNumIterations + 1
  /\ solver_summary_.message = "Maximum number of iterations reached."
  /\ solver_summary_.termination_type = "NO_CONVERGENCE"
  /\ ~history.boundary.gradient /\ ~history.boundary.radius

C26_ResizeNeverReducesThePool ==
  [][ /\ Len(thread_pool_') >= Len(thread_pool_)
      /\ tasks'.resize_calls = 0 => Len(thread_pool_') = 0
      /\ \A c \in Callers :
           ( resize[c].pc = "return" /\ resize'[c].pc = "idle" ) =>
             /\ thread_pool_mutex_ = c
             /\ Len(thread_pool_') =
                  Max(resize[c].num_current_threads,
                      IF num_hardware_threads = 0
                      THEN resize[c].num_threads
                      ELSE Min(resize[c].num_threads, num_hardware_threads))
    ]_vars

\* a second call of Resize asked a pool of one thread for more threads
\* than the hardware has, has gone through the loop without starting a
\* thread, and returns
C26_Witness ==
  \E c \in Callers :
    /\ resize[c].pc = "return"
    /\ tasks.resize_calls = 2
    /\ num_hardware_threads = 1
    /\ resize[c].num_threads > num_hardware_threads
    /\ resize[c].num_current_threads = 1
    /\ resize[c].num_threads_create = 1
    /\ Len(thread_pool_) = 1

\* C27: a task given to AddTask is run by a worker of the pool and by
\* nothing else.  In a pool of at least one thread every task given to
\* AddTask is run to its end, at once or when a worker has finished what
\* it was doing: a pool never loses a thread and a task never goes back,
\* so this says that from some moment on a pool with a thread has no
\* task left that waits in the queue or is still running.  While the
\* pool has no thread a task stays in the queue: a task leaves the queue
\* only into the hands of a worker, so a task given to an empty pool is
\* run only after Resize has started a thread.
C27_TasksRunOnceAWorkerExists ==
  /\ <>[]( Len(thread_pool_) >= 1 =>
             \A t \in Tasks : tasks.status[t] \in {"new", "done"} )
  /\ [][ \A t \in Tasks :
           /\ ( tasks.status[t] = "queued" /\ tasks'.status[t] # "queued" ) =>
                /\ Len(thread_pool_) >= 1
                /\ tasks'.status[t] = "running"
                /\ \E w \in Workers :
                     /\ thread_pool_[w].at = "Pop"
                     /\ thread_pool_'[w] = [at |-> "task", task |-> t]
           /\ ( tasks.status[t] = "queued" /\ Len(thread_pool_') = 0 ) =>
                tasks'.status[t] = "queued"
           /\ tasks.status[t] = "done" => tasks'.status[t] = "done"
       ]_vars

\* a task that was given to the pool while it had no thread has been run,
\* and so has a task that was given to it when it had one
C27_Witness ==
  \E t, u \in Tasks :
    /\ tasks.status[t] = "done" /\ ~tasks.pool_had_threads[t]
    /\ tasks.status[u] = "done" /\ tasks.pool_had_threads[u]
    /\ Len(thread_pool_) = 1

\* C28: ParallelFor(context, start, end, num_threads, f) invokes f for
\* every index of [start, end) exactly once: no index is ever visited
\* twice or outside the range, the ranges handed to the invocations are
\* disjoint, and when the call has returned every index of the range has
\* been visited and no invocation is still running.  For start >= end f
\* is never invoked.  When num_threads == 1 or end - start == 1 every
\* invocation runs on the calling thread as thread 0, no shared state is
\* made, and the call does not fail for a missing context.
C28_ParallelForInvokesEveryIndexOnce ==
  LET in_range(i) == call.start <= i /\ i < call.end
  IN  /\ \A i \in Indices :
           invoked.count[i] <= ( IF in_range(i) THEN 1 ELSE 0 )
      /\ \A s, t \in invoked.segments :
           s # t => s.last <= t.first \/ t.last <= s.first
      /\ caller.pc = "returned" =>
           /\ \A i \in Indices : in_range(i) => invoked.count[i] = 1
           /\ \A p \in Participants : participants[p].pc # "invoke"
      /\ call.start >= call.end => invoked.segments = {}
      /\ ( call.num_threads = 1 \/ call.end - call.start = 1 ) =>
           /\ \A s \in invoked.segments :
                s.participant = CallingThread /\ s.thread_id = 0
           /\ shared_state = NoSharedState
           /\ caller.pc # "CHECK failed"

\* a call with partitions has returned after the calling thread, as
\* thread 0, and a thread of the pool, as thread 1, have each worked on
\* a partition, one of them of several indices
C28_Witness ==
  /\ caller.pc = "returned"
  /\ caller.function = "partitions"
  /\ \E s, t \in invoked.segments :
       /\ s.participant = CallingThread /\ s.thread_id = 0
       /\ t.participant # CallingThread /\ t.thread_id = 1
       /\ t.last - t.first > 1

\* C29: Solve validates the options before any other stage, and once
\* only.  When Solver::Options::IsValid fails, Solve has returned right
\* after it: the summary is a fresh Summary() whose message names the
\* first violated constraint (in the order common options, trust-region
\* options of a TRUST_REGION minimizer, line-search options), neither
\* the preprocessor nor the minimizer has run, and the parameter values
\* of the problem are the ones the caller gave.  When the options are
\* valid, no later stage, the minimizer included, leaves the name of a
\* violated constraint in the message.
C29_InvalidOptionsEndSolveAtOnce ==
  LET checks == CommonOptionsChecks(solver_options)
                  \o ( IF solver_options.minimizer_type = "TRUST_REGION"
                       THEN TrustRegionOptionsChecks(solver_options)
                       ELSE << >> )
                  \o LineSearchOptionsChecks(solver_options)
      violated == { k \in 1 .. Len(checks) : ~checks[k][1] }
      first    == CHOOSE k \in violated : \A j \in violated : k <= j
      names    == { checks[k][2] : k \in 1 .. Len(checks) }
  IN  /\ solve.calls # << >> => solve.calls[1] = "IsValid"
      /\ \A k \in 2 .. Len(solve.calls) : solve.calls[k] # "IsValid"
      /\ ( solve.pc # "Solve" /\ violated # {} ) =>
           /\ solve.pc = "returned"
           /\ solve.calls = << "IsValid" >>
           /\ summary = [NewSummary EXCEPT !.message = checks[first][2]]
           /\ user_state = solve.given_state
      /\ ( solve.pc # "Solve" /\ violated = {} ) =>
           summary.message \notin names

\* Solve has returned for options that violate two constraints; the
\* summary the caller gave held the result of an earlier solve
C29_Witness ==
  /\ solve.pc = "returned"
  /\ solve.calls = << "IsValid" >>
  /\ solve.given_summary # NewSummary
  /\ summary.message = "num_threads > 0"
  /\ solver_options.num_threads = 0
  /\ solver_options.max_lbfgs_rank = 0

\* C30: Solver::Options::IsValid checks the common options first, the
\* trust-region options only when minimizer_type is TRUST_REGION, and
\* the line-search options always: options that violate a common
\* constraint are rejected with the name of a common constraint; with
\* valid common options, a TRUST_REGION minimizer with a violated
\* trust-region constraint is rejected with the name of a trust-region
\* constraint; with these passed, options are rejected exactly when a
\* line-search constraint is violated, for either minimizer type, and a
\* LINE_SEARCH minimizer is never rejected for a trust-region
\* constraint.  Accepted options of a TRUST_REGION minimizer have
\* 0 < min_trust_region_radius <= initial_trust_region_radius
\*   <= max_trust_region_radius.
C30_IsValidChecksLineSearchOptionsAlways ==
  LET Violated(checks) == \E k \in 1 .. Len(checks) : ~checks[k][1]
      Names(checks)    == { checks[k][2] : k \in 1 .. Len(checks) }
      common           == CommonOptionsChecks(solver_options)
      trust_region     == TrustRegionOptionsChecks(solver_options)
      line_search      == LineSearchOptionsChecks(solver_options)
      is_trust_region  == solver_options.minimizer_type = "TRUST_REGION"
      rejected         == solve.pc = "returned"
                            /\ solve.calls = << "IsValid" >>
      min_radius       == solver_options.min_trust_region_radius
      initial_radius   == solver_options.initial_trust_region_radius
      max_radius       == solver_options.max_trust_region_radius
  IN  solve.pc # "Solve" =>
        /\ Violated(common) =>
             rejected /\ summary.message \in Names(common)
        /\ ( ~Violated(common) /\ is_trust_region
             /\ Violated(trust_region) ) =>
             rejected /\ summary.message \in Names(trust_region)
        /\ ( ~Violated(common)
             /\ ( is_trust_region => ~Violated(trust_region) ) ) =>
             /\ rejected <=> Violated(line_search)
             /\ rejected => summary.message \in Names(line_search)
        /\ ( ~rejected /\ is_trust_region ) =>
             /\ {min_radius, initial_radius, max_radius} \cap {NaN} = {}
             /\ 0 < min_radius
             /\ min_radius <= initial_radius
             /\ initial_radius <= max_radius

\* a TRUST_REGION minimizer whose common and trust-region options are
\* valid has been rejected for a line-search constraint
C30_Witness ==
  /\ solve.pc = "returned"
  /\ solve.calls = << "IsValid" >>
  /\ solver_options.minimizer_type = "TRUST_REGION"
  /\ CommonOptionsAreValid(solver_options) = ""
  /\ TrustRegionOptionsAreValid(solver_options) = ""
  /\ summary.message = "max_line_search_step_expansion > 1.0"

\* C31: when the preprocessor leaves a reduced program without parameter
\* blocks, Minimize reports CONVERGENCE with initial_cost = final_cost =
\* fixed_cost, and that is what Solve returns; Minimizer::Minimize is not
\* called and the parameter values of the problem are the ones the caller
\* gave.
C31_EmptyProgramConvergesAtFixedCost ==
  ( /\ solve.pc \in {"PostSolve", "returned"}
    /\ solve.status
    /\ solve.num_parameter_blocks = 0 ) =>
      /\ summary.termination_type = "CONVERGENCE"
      /\ summary.initial_cost = summary.fixed_cost
      /\ summary.final_cost = summary.fixed_cost
      /\ summary.fixed_cost = FixedCost
      /\ summary.iterations = << >>
      /\ \A k \in 1 .. Len(solve.calls) : solve.calls[k] # "Minimize"
      /\ user_state = solve.given_state

\* Solve has returned for a reduced program without parameter blocks; the
\* summary the caller gave held the costs of an earlier solve
C31_Witness ==
  /\ solve.pc = "returned"
  /\ solve.status
  /\ solve.num_parameter_blocks = 0
  /\ solve.given_summary.initial_cost = 3
  /\ summary.initial_cost = FixedCost
  /\ solve.calls = << "IsValid", "Preprocess", "PostSolveSummarize" >>

StepsCounted(ss) == ss.num_successful_steps + ss.num_unsuccessful_steps

\* C32: whenever FinalizeIterationAndCheckIfMinimizerCanContinue appends a
\* record, num_successful_steps + num_unsuccessful_steps is the iteration
\* number of that record, which is the number of records minus one; a pass
\* of the loop body that reaches the boundary adds one to exactly one of
\* the two counters, and the parts of the body before the step decision
\* leave both as they are.
C32_StepCountersNumberTheRecords ==
  [][ /\ pc = "Finalize" =>
           /\ Len(solver_summary_'.iterations) =
                Len(solver_summary_.iterations) + 1
           /\ StepsCounted(solver_summary_') =
                Len(solver_summary_'.iterations) - 1
           /\ StepsCounted(solver_summary_') =
                solver_summary_'.iterations[
                  Len(solver_summary_'.iterations)].iteration
      /\ ( pc \in {"HandleInvalidStep", "StepDecision"} /\ pc' = "Finalize" ) =>
           \/ /\ solver_summary_'.num_successful_steps =
                   solver_summary_.num_successful_steps + 1
              /\ solver_summary_'.num_unsuccessful_steps =
                   solver_summary_.num_unsuccessful_steps
           \/ /\ solver_summary_'.num_successful_steps =
                   solver_summary_.num_successful_steps
              /\ solver_summary_'.num_unsuccessful_steps =
                   solver_summary_.num_unsuccessful_steps + 1
      /\ pc \in {"Finalize", "ComputeTrustRegionStep", "TrialStep",
                 "DoInnerIterations"} =>
           StepsCounted(solver_summary_') = StepsCounted(solver_summary_)
    ]_vars

\* the record of iteration 2 has been appended after one successful and
\* one unsuccessful step
C32_Witness ==
  /\ pc \in {"ComputeTrustRegionStep", "done"}
  /\ Len(solver_summary_.iterations) = 3
  /\ history.stopped_in # "body"
  /\ solver_summary_.num_successful_steps = 1
  /\ solver_summary_.num_unsuccessful_steps = 1

\* the feedback the strategy is due for the iteration of a record
FeedbackFor(is) ==
  IF ~is.step_is_valid THEN "StepIsInvalid"
  ELSE IF is.step_is_successful THEN "StepAccepted"
  ELSE "StepRejected"

\* C33: when a pass of the loop body arrives at the iteration boundary,
\* the strategy has received, since the ComputeStep of that pass, exactly
\* one feedback call, and it is the one of the outcome: StepIsInvalid for
\* an invalid step, StepRejected for a rejected one, StepAccepted for an
\* accepted one.  Nothing is sent to the strategy at the boundary, so the
\* feedback lies before the next ComputeStep.  When Minimize returns from
\* inside the body the strategy has received ComputeStep and at most one
\* feedback call.
C33_OneStrategyFeedbackPerIteration ==
  /\ ( pc = "Finalize" /\ iteration_summary_.iteration > 0 ) =>
         strategy_.calls = << "ComputeStep", FeedbackFor(iteration_summary_) >>
  /\ ( pc = "ComputeTrustRegionStep" /\ iteration_summary_.iteration > 0 ) =>
         strategy_.calls = << "ComputeStep", FeedbackFor(iteration_summary_) >>
  /\ ( pc = "done" /\ history.stopped_in = "body" ) =>
         /\ Len(strategy_.calls) \in {1, 2}
         /\ strategy_.calls[1] = "ComputeStep"
         /\ Len(strategy_.calls) = 2 =>
              /\ strategy_.calls[2] = "StepAccepted"
              /\ history.iteration.outcome = "accepted_failure"
  /\ pc \in {"HandleInvalidStep", "TrialStep", "DoInnerIterations",
             "StepDecision"} =>
         strategy_.calls = << "ComputeStep" >>

\* an invalid step in iteration 1 and a rejected step in iteration 2
\* have each reached the boundary
C33_Witness ==
  /\ pc = "Finalize"
  /\ iteration_summary_.iteration = 2
  /\ strategy_.calls = << "ComputeStep", "StepRejected" >>
  /\ history.invalid_iterations = 1

\* C34: with Jacobi scaling, the Jacobian that ComputeTrustRegionStep
\* hands to the strategy is the Jacobian of the current x_ with every
\* column multiplied by scale_ once: it is not the evaluated Jacobian
\* itself and not the evaluated Jacobian scaled twice.  This holds in the
\* iterations that follow an invalid or a rejected step as well, because
\* only the evaluation in IterationZero and the one that follows an
\* accepted step write the Jacobian.  The step of the strategy is
\* multiplied by the same scale_ to give delta_, which on a constrained
\* problem the line search may then shorten.
C34_JacobianIsScaledOnce ==
  /\ [] ( options_.jacobi_scaling =>
            /\ pc \in {"ComputeTrustRegionStep", "HandleInvalidStep",
                       "TrialStep", "DoInnerIterations", "StepDecision"} =>
                 /\ jacobian_ = [num |-> JacobianAt(x_) * scale_.num,
                                 den |-> scale_.den]
                 /\ jacobian_.num * 1 # JacobianAt(x_) * jacobian_.den
                 /\ jacobian_.num * scale_.den * scale_.den #
                      JacobianAt(x_) * scale_.num * scale_.num * jacobian_.den
            /\ ( pc \in {"DoInnerIterations", "StepDecision"}
                 /\ ~options_.is_constrained ) =>
                 /\ delta_ * scale_.den = trust_region_step_ * scale_.num
                 /\ delta_ # trust_region_step_
            /\ ( pc \in {"DoInnerIterations", "StepDecision"}
                 /\ options_.is_constrained ) =>
                 delta_ * scale_.den * history.iteration.optimal_step_size[2] =
                   trust_region_step_ * scale_.num *
                     ( IF history.iteration.line_search = "found"
                       THEN history.iteration.optimal_step_size[1]
                       ELSE history.iteration.optimal_step_size[2] ) )
  /\ [][ ( /\ pc # "Minimize"
           /\ ~( pc = "StepDecision" /\ IsStepSuccessful
                 /\ ~ParameterToleranceReached /\ ~FunctionToleranceReached ) )
         => jacobian_' = jacobian_ /\ scale_' = scale_ ]_vars

\* with Jacobi scaling, the strategy is about to compute the step of
\* iteration 2 after a rejected step, at the point of iteration 0
C34_Witness ==
  /\ pc = "ComputeTrustRegionStep"
  /\ options_.jacobi_scaling
  /\ iteration_summary_.iteration = 1
  /\ history.iteration.outcome = "rejected"
  /\ jacobian_ = [num |-> JacobianAt(x_), den |-> 1 + Abs(JacobianAt(x_))]

\* C35: when Minimize returns because the candidate reached the parameter
\* tolerance or the function tolerance, the candidate is not adopted: x_,
\* the cost and the caller's buffer are those the iteration started with,
\* the strategy has received ComputeStep and no feedback, and the step
\* evaluator is as it was before the check, so neither was told of an
\* accepted or a rejected step.
C35_ConvergedCandidateIsNotAdopted ==
  /\ [] ( history.iteration.outcome \in
            {"parameter_tolerance", "function_tolerance"} =>
            /\ pc = "done"
            /\ x_ = history.iteration.x
            /\ cost_ = history.iteration.cost
            /\ parameters = history.iteration.parameters
            /\ strategy_.calls = << "ComputeStep" >>
            /\ solver_summary_.termination_type = "CONVERGENCE" )
  /\ [][ ( history'.iteration.outcome \in
             {"parameter_tolerance", "function_tolerance"}
           /\ pc # "done" ) =>
           /\ x_' = x_
           /\ parameters' = parameters
           /\ strategy_' = strategy_
           /\ step_evaluator_' = step_evaluator_
           /\ minimum_cost' = minimum_cost ]_vars

\* the function tolerance ended the solve on a candidate of lower cost at
\* another point, which the caller does not receive
C35_Witness ==
  /\ pc = "done"
  /\ history.iteration.outcome = "function_tolerance"
  /\ x_plus_delta_ # x_
  /\ new_cost < cost_
  /\ parameters = x_

\* C36: when IterationZero fails, because the initial point cannot be
\* projected or because the first evaluation fails, Minimize returns with
\* FAILURE and the caller's buffer holds what the caller passed in, also
\* when the point had been projected before the evaluation failed; no
\* iteration summary has been appended, the iteration boundary with its
\* callbacks has not been run, and the strategy has received no call.
C36_FailedIterationZeroLeavesNoTrace ==
  /\ [] ( history.stopped_in = "IterationZero" =>
            /\ pc = "done"
            /\ parameters = history.initial_x
            /\ solver_summary_.termination_type = "FAILURE"
            /\ solver_summary_.iterations = << >>
            /\ solver_summary_.num_iterations = 0
            /\ history.boundary = NoBoundary
            /\ strategy_.calls = << >>
            /\ solver_summary_.num_successful_steps = 0
            /\ solver_summary_.num_unsuccessful_steps = 0 )
  /\ [][ ( pc = "Minimize" /\ pc' = "done" ) =>
           /\ history'.stopped_in = "IterationZero"
           /\ parameters' = parameters
           /\ strategy_' = strategy_ ]_vars

\* on a constrained problem the initial point was projected to another
\* point, the evaluation there failed, and the buffer is as it was given
C36_Witness ==
  /\ history.stopped_in = "IterationZero"
  /\ options_.is_constrained
  /\ solver_summary_.message = "Residual and Jacobian evaluation failed."
  /\ x_ # parameters

\* the workers that hold task t
Holders(t) == { w \in Workers : thread_pool_[w].task = t }

\* the places of task t in the queue
PlacesInQueue(t) ==
  { k \in 1 .. Len(task_queue_.queue) : task_queue_.queue[k] = t }

\* C38: with several workers that pop from the one queue, a task given to
\* the pool is run at most once and by one worker: a task that waits is at
\* one place of the queue and with no worker, a task that runs is with
\* exactly one worker and not in the queue, a task that is done is with
\* none, and a task that runs or is done never goes back.  The destructor
\* calls Stop and has returned only when every worker has left its main
\* loop, so that no task is still running.
C38_TasksRunOnceAndDestructorJoins ==
  /\ [] ( \A t \in Tasks :
            /\ tasks.status[t] = "new" =>
                 Holders(t) = {} /\ PlacesInQueue(t) = {}
            /\ tasks.status[t] = "queued" =>
                 Holders(t) = {} /\ Cardinality(PlacesInQueue(t)) = 1
            /\ tasks.status[t] = "running" =>
                 /\ Cardinality(Holders(t)) = 1
                 /\ PlacesInQueue(t) = {}
                 /\ \A w \in Holders(t) : thread_pool_[w].at = "task"
            /\ tasks.status[t] = "done" =>
                 Holders(t) = {} /\ PlacesInQueue(t) = {} )
  /\ [] ( tasks.destroyed => task_queue_.stop )
  /\ [] ( DestructorReturned =>
            /\ \A w \in Workers : thread_pool_[w].at = "exit"
            /\ \A t \in Tasks : tasks.status[t] # "running" )
  /\ [][ /\ \A t \in Tasks :
              /\ tasks.status[t] = "running" =>
                   tasks.status'[t] \in {"running", "done"}
              /\ tasks.status[t] = "done" => tasks.status'[t] = "done"
              /\ ( tasks.status[t] # "running" /\ tasks.status'[t] = "running" ) =>
                   tasks.status[t] = "queued"
         /\ DestructorReturned => thread_pool_' = thread_pool_ ]_vars

\* the destructor has called Stop and waits in its first join while the
\* two workers of the pool run one task each
C38_Witness ==
  /\ tasks.destroyed
  /\ tasks.joined = 0
  /\ Len(thread_pool_) = 2
  /\ thread_pool_[1].at = "task" /\ thread_pool_[2].at = "task"
  /\ thread_pool_[1].task # thread_pool_[2].task

\* the number of entries that the matrix holds
EntriesHeld ==
  Cardinality({ e \in (1 .. Len(matrix.held)) \X (1 .. MaxMatrixCalls) :
                  e[2] <= Len(matrix.held[e[1]]) })

\* C39: after any sequence of InsertEntry and ClearRows, Finalize leaves
\* compressed-row arrays with rows[0] = 0, rows non-decreasing,
\* rows[num_rows] the number of entries inserted and not cleared, and for
\* every row r the columns and values at rows[r] .. rows[r+1] - 1 are the
\* entries of row r in the order of their insertion.  ClearRows(row_start,
\* n) empties the rows row_start .. row_start + n - 1 and leaves the
\* entries of every other row, and the compressed arrays, as they are.
C39_FinalizeFlattensHeldEntries ==
  /\ [] ( matrix.last = "Finalize" =>
            /\ rows_[1] = 0
            /\ \A r \in 1 .. num_rows_ : rows_[r] <= rows_[r + 1]
            /\ rows_[num_rows_ + 1] = EntriesHeld
            /\ Len(cols_) >= EntriesHeld /\ Len(values_) >= EntriesHeld
            /\ \A r \in 1 .. num_rows_ :
                 /\ rows_[r + 1] - rows_[r] = Len(matrix.held[r])
                 /\ \A k \in 1 .. Len(matrix.held[r]) :
                      /\ cols_[rows_[r] + k] = matrix.held[r][k][1]
                      /\ values_[rows_[r] + k] = matrix.held[r][k][2] )
  /\ [][ matrix'.last = "ClearRows" =>
           /\ \A r \in 1 .. Len(dynamic_cols_) :
                IF matrix'.args[1] < r /\ r <= matrix'.args[1] + matrix'.args[2]
                THEN /\ dynamic_cols_'[r] = << >>
                     /\ dynamic_values_'[r] = << >>
                ELSE /\ dynamic_cols_'[r] = dynamic_cols_[r]
                     /\ dynamic_values_'[r] = dynamic_values_[r]
           /\ Len(dynamic_cols_') = Len(dynamic_cols_)
           /\ << rows_, cols_, values_ >>' = << rows_, cols_, values_ >> ]_vars

\* on a matrix of two rows ClearRows has removed an entry, and Finalize
\* has then flattened an empty row 0 and a row 1 of one entry
C39_Witness ==
  /\ matrix.last = "Finalize"
  /\ matrix.cleared
  /\ num_rows_ = 2
  /\ matrix.held[1] = << >>
  /\ Len(matrix.held[2]) = 1
  /\ rows_ = << 0, 0, 1 >>
  /\ cols_[1] = matrix.held[2][1][1]
====
